---- MODULE Spec2Model ----
(***************************************************************************)
(* A model of dem_to_3d_print_highram_v65.py: the per-tile operator        *)
(* DEMPRINT_OT_Process.execute (import, base, flat-bottom cut, overlays,   *)
(* deboss, alignment notches, mounting holes, scale, export), the batch    *)
(* operator DEMPRINT_OT_BatchProcess.execute, and the geometry of the      *)
(* base extrusion and the flat-bottom cut.                                 *)
(*                                                                         *)
(* Host (Blender) operations are modelled by their effect on the objects   *)
(* the script reads back: a mesh is its vertex count and the list of       *)
(* cutters subtracted from it, a modifier stack is a sequence of           *)
(* modifiers, the scene is the set of cutter objects alive.  Whether a     *)
(* host operation succeeds, raises or empties a mesh is the environment's  *)
(* choice.                                                                 *)
(***************************************************************************)
EXTENDS Integers, Sequences, FiniteSets, TLC

VARIABLES
    props,      \* the settings execute reads (DEMPrintProperties)
    pc,         \* position of execute
    terrain,    \* the terrain object: [verts, cuts]
    mods,       \* the terrain object's modifier stack
    scene,      \* cutter objects alive in the scene
    log,        \* every bpy.ops.object.modifier_apply of a boolean: [cutter, solver, ok]
    created,    \* cutter objects in the order they were created
    notch,      \* index of the notch the loop of add_alignment_cutouts is at
    cuts,       \* [ok, failed]: successful_cuts, failed_cuts
    objs,       \* building_obj, road_obj, trail_obj, labels_obj
    result,     \* what execute returned
    reported,   \* self.report({'ERROR'}, ...) was called
    scaled,     \* scale_object ran
    exported,   \* suffixes export_stl wrote
    events,     \* what went wrong so far (history)
    faults,     \* how many abnormal outcomes the environment produced
    batch,      \* state of DEMPRINT_OT_BatchProcess.execute
    solid,      \* state of the extrude/cut geometry
    calc        \* state of the stage-internal computation a specification runs

vars == <<props, pc, terrain, mods, scene, log, created, notch, cuts, objs,
          result, reported, scaled, exported, events, faults, batch, solid, calc>>

runVars == <<props, pc, terrain, mods, scene, log, created, notch, cuts, objs,
             result, reported, scaled, exported, events, faults>>

----------------------------------------------------------------------------
(* Bounds of the model *)

MaxVerts == 1       \* vertex counts range over 0..MaxVerts
MaxFaults == 2      \* abnormal outcomes the environment may produce in one run

----------------------------------------------------------------------------
(* Meshes, modifiers, scene *)

NoneObj == -1

Range(s) == {s[i] : i \in DOMAIN s}

\* obj.modifiers.new(name=..., type='BOOLEAN'); operation, object and solver set
ModifierNew(ms, name, solver, obj) ==
    Append(ms, [name |-> name, solver |-> solver, object |-> obj])

\* a successful bpy.ops.object.modifier_apply removes the modifier from the stack
ModifierApplied(ms, name) == SelectSeq(ms, LAMBDA m : m.name # name)

\* the mesh after a boolean DIFFERENCE was applied
ApplyCut(t, cutter, emptied) ==
    [verts |-> IF emptied THEN 0 ELSE t.verts, cuts |-> Append(t.cuts, cutter)]

\* the value of a modifier's object pointer when it points at nothing
NoObject == <<>>

\* bpy.data.objects.remove(obj, do_unlink=True): the object leaves the scene and
\* every modifier that pointed at it points at nothing
ObjectsRemove(ms, obj) ==
    [i \in DOMAIN ms |->
        IF ms[i].object = obj THEN [ms[i] EXCEPT !.object = NoObject] ELSE ms[i]]

\* len(obj.data.vertices) == 0
EmptyMesh(t) == t.verts = 0

\* min()/max() over obj.data.vertices raises ValueError on an empty mesh, and
\* obj.dimensions.x is 0 there, so the divisions by it raise ZeroDivisionError
RaisesOnEmpty(t) == t.verts = 0

CanFault == faults < MaxFaults


----------------------------------------------------------------------------
(* Names the script gives its cutters and modifiers *)

\* cutout_configs of add_alignment_cutouts, in list order
CutoutNames ==
    <<"South_W", "South_E", "North_W", "North_E",
      "West_S", "West_N", "East_S", "East_N">>

\* f"Cutout_{name}"
CutoutObj(i) == <<"Cutout", CutoutNames[i]>>

BottomCutter == <<"Bottom_Cutter">>
DebossCutter == <<"Final_Deboss_Cutter">>

\* hole_positions of add_mounting_holes, in list order
HolePositions == <<"SW", "SE", "NW", "NE">>

\* add_mounting_holes appends the cylinder of every corner to all_verts and
\* all_faces and builds one object from them: the cutters created are this list
MountingHoleCutters == << <<"Mounting_Holes_Combined">> >>

\* the corner cylinders a mounting-hole cutter is made of
CylindersOf(c) ==
    IF c = <<"Mounting_Holes_Combined">> THEN Range(HolePositions) ELSE {}

\* name of the first and of the retry modifier made for a cutter
BoolName(c) == <<"Boolean", c>>
RetryName(c) == <<"Boolean", c, "retry">>

\* the solver of the first attempt of each subtraction step
FlatBottomSolver == "EXACT"
DebossSolver == "FAST"
CutoutSolver == "EXACT"
MountingHolesSolver == "EXACT"
\* the solver of the retry
FallbackSolver == "FAST"

----------------------------------------------------------------------------
(* DEMPRINT_OT_Process.execute *)

Outcomes == {"ok", "empty", "raise"}

\* the environment may always behave, and may misbehave while its budget lasts
Allowed(out) == out = "ok" \/ CanFault

Count(out) == faults' = faults + (IF out = "ok" THEN 0 ELSE 1)

\* a faulty handler: an exception that escaped a step is swallowed
ExceptSwallowed == "FINISHED"

\* what the handler "except Exception" of execute returns
ExceptResult == "CANCELLED"

Return(res, rep) ==
    /\ result' = res
    /\ reported' = (reported \/ rep)
    /\ pc' = "done"

\* an exception escaped a step: execute's handler reports it and returns
Except == Return(ExceptResult, TRUE)

\* one bpy.ops.object.modifier_apply of modifier nm (made for cutter c) on the
\* modifier stack ms, with outcome out
TryApply(ms, c, nm, solver, out) ==
    /\ log' = Append(log, [cutter |-> c, solver |-> solver, ok |-> out # "raise"])
    /\ IF out = "raise"
         THEN /\ UNCHANGED terrain
              /\ mods' = ms
              /\ events' = events \cup {<<"solver_failed", c, solver>>}
         ELSE /\ terrain' = ApplyCut(terrain, c, out = "empty")
              /\ mods' = ModifierApplied(ms, nm)
              /\ events' = IF out = "empty"
                             THEN events \cup {<<"emptied", c, solver>>}
                             ELSE events

\* the fallback: a second modifier with the FAST solver is made and applied
RetryApply(c, out) ==
    TryApply(ModifierNew(mods, RetryName(c), FallbackSolver, c),
             c, RetryName(c), FallbackSolver, out)

InitProps ==
    [cutouts : BOOLEAN, holes : BOOLEAN,
     building_source : {"NONE", "SHAPEFILE", "CITYJSON"},
     roads : BOOLEAN, trails : BOOLEAN, labels : BOOLEAN]

\* the batch operator and the solid geometry when they are not what is run
IdleBatch ==
    [pc |-> "idle", listing |-> <<>>, dem_files |-> <<>>, i |-> 0,
     successful |-> 0, failed |-> 0, processed |-> <<>>, outcomes |-> <<>>,
     dem_file |-> 0, original_dem |-> 0, result |-> "RUNNING", reported |-> FALSE]

IdleCalc == [pc |-> "idle"]

IdleSolid ==
    [pc |-> "idle", h |-> <<>>, depth |-> 0, auto |-> FALSE, manual |-> 0,
     segs |-> <<>>, cut_elevation |-> 0, pieces |-> {}]

Init ==
    /\ props \in InitProps
    /\ pc = "import"
    /\ terrain = [verts |-> 0, cuts |-> <<>>]
    /\ mods = <<>>
    /\ scene = {}
    /\ log = <<>>
    /\ created = <<>>
    /\ notch = 0
    /\ cuts = [ok |-> 0, failed |-> 0]
    /\ objs = [buildings |-> NoneObj, roads |-> NoneObj,
               trails |-> NoneObj, labels |-> NoneObj]
    /\ result = "RUNNING"
    /\ reported = FALSE
    /\ scaled = FALSE
    /\ exported = {}
    /\ events = {}
    /\ faults = 0
    /\ batch = IdleBatch
    /\ solid = IdleSolid
    /\ calc = IdleCalc

\* Steps 1-3: import_dem, set_subdivision_level, apply_modifiers
ImportDem ==
    /\ pc = "import"
    /\ \E out \in {"ok", "raise"} :
        /\ Allowed(out)
        /\ Count(out)
        /\ IF out = "ok"
             THEN /\ terrain' = [verts |-> MaxVerts, cuts |-> <<>>]
                  /\ pc' = "modifiers"
                  /\ UNCHANGED <<result, reported, events>>
             ELSE /\ Return("CANCELLED", FALSE)
                  /\ events' = events \cup {<<"import_dem", <<>>, "">>}
                  /\ UNCHANGED terrain
    /\ UNCHANGED <<props, mods, scene, log, created, notch, cuts, objs, scaled,
                   exported, batch, solid, calc>>

ApplyModifiers ==
    /\ pc = "modifiers"
    /\ \E out \in {"ok", "raise"} :
        /\ Allowed(out)
        /\ Count(out)
        /\ IF out = "ok"
             THEN /\ pc' = "extrude"
                  /\ UNCHANGED <<result, reported, events>>
             ELSE /\ Return("CANCELLED", TRUE)
                  /\ events' = events \cup {<<"apply_modifiers", <<>>, "">>}
    /\ UNCHANGED <<props, terrain, mods, scene, log, created, notch, cuts, objs,
                   scaled, exported, batch, solid, calc>>

\* Step 4: extrude_base
ExtrudeBase ==
    /\ pc = "extrude"
    /\ pc' = "flat_create"
    /\ UNCHANGED <<props, terrain, mods, scene, log, created, notch, cuts, objs,
                   result, reported, scaled, exported, events, faults, batch, solid, calc>>

\* Step 5, cut_flat_bottom: the cutter cube and the modifier Boolean_FlatBottom
CutFlatBottomCreate ==
    /\ pc = "flat_create"
    /\ scene' = scene \cup {BottomCutter}
    /\ created' = Append(created, BottomCutter)
    /\ mods' = ModifierNew(mods, BoolName(BottomCutter), FlatBottomSolver, BottomCutter)
    /\ pc' = "flat_first"
    /\ UNCHANGED <<props, terrain, log, notch, cuts, objs, result, reported,
                   scaled, exported, events, faults, batch, solid, calc>>

CutFlatBottomFirst ==
    /\ pc = "flat_first"
    /\ \E out \in Outcomes :
        /\ Allowed(out)
        /\ Count(out)
        /\ TryApply(mods, BottomCutter, BoolName(BottomCutter), FlatBottomSolver, out)
        /\ pc' = IF out = "raise" THEN "flat_retry" ELSE "flat_remove"
    /\ UNCHANGED <<props, scene, created, notch, cuts, objs, result, reported,
                   scaled, exported, batch, solid, calc>>

\* the bare "except:" of cut_flat_bottom: Boolean_Retry is applied outside any
\* try, so its failure leaves cut_flat_bottom (the cutter is not removed)
CutFlatBottomRetry ==
    /\ pc = "flat_retry"
    /\ \E out \in Outcomes :
        /\ Allowed(out)
        /\ Count(out)
        /\ RetryApply(BottomCutter, out)
        /\ IF out = "raise"
             THEN Except
             ELSE /\ pc' = "flat_remove"
                  /\ UNCHANGED <<result, reported>>
    /\ UNCHANGED <<props, scene, created, notch, cuts, objs, scaled, exported,
                   batch, solid, calc>>

CutFlatBottomRemove ==
    /\ pc = "flat_remove"
    /\ scene' = scene \ {BottomCutter}
    /\ mods' = ObjectsRemove(mods, BottomCutter)
    /\ pc' = "buildings"
    /\ UNCHANGED <<props, terrain, log, created, notch, cuts, objs, result,
                   reported, scaled, exported, events, faults, batch, solid, calc>>


----------------------------------------------------------------------------
(* Steps 6-8b: the overlay stages.  Each stage is one call; what the host   *)
(* does inside it is the input in: whether the import succeeded, whether an *)
(* operation the stage does not guard raised, and the vertex counts n[k]    *)
(* the stage reads back after its steps.                                    *)

StageNone == [kind |-> "none", verts |-> NoneObj]
StageRaise == [kind |-> "raise", verts |-> NoneObj]
StageObj(n) == [kind |-> "obj", verts |-> n]

\* vertex counts after the steps of a stage: deleting steps never add vertices
Counts == {n \in [1..4 -> 0..MaxVerts] : \A k \in 1..3 : n[k+1] <= n[k]}

\* library: "import shapefile" succeeds (read by add_road_labels only)
StageInputs == [library : BOOLEAN, imported : BOOLEAN, raises : BOOLEAN, n : Counts]

\* add_buildings: import (four guarded methods), pre-prune, shrinkwrap prune,
\* bisect and delete_loose
AddBuildings(t, in) ==
    IF ~in.imported THEN StageNone
    ELSE IF in.n[1] = 0 THEN StageNone
    ELSE IF RaisesOnEmpty(t) THEN StageRaise
    ELSE IF in.n[2] = 0 THEN StageNone
    ELSE IF in.raises THEN StageRaise
    ELSE IF in.n[3] = 0 THEN StageNone
    ELSE IF in.n[4] = 0 THEN StageNone
    ELSE StageObj(in.n[4])

\* add_buildings_cityjson: load, collect geometry in bounds, align, bisect
AddBuildingsCityjson(t, in) ==
    IF RaisesOnEmpty(t) THEN StageRaise
    ELSE IF ~in.imported THEN StageNone
    ELSE IF in.n[1] = 0 THEN StageNone
    ELSE IF in.raises THEN StageRaise
    ELSE IF in.n[4] = 0 THEN StageNone
    ELSE StageObj(in.n[4])

\* add_roads: import (three guarded methods), pre-prune, shrinkwrap prune,
\* profile sweep, stray-vertex removal, bisect
AddRoads(t, in) ==
    IF RaisesOnEmpty(t) THEN StageRaise
    ELSE IF ~in.imported THEN StageNone
    ELSE IF in.n[1] = 0 THEN StageNone
    ELSE IF in.n[2] = 0 THEN StageNone
    ELSE IF in.raises THEN StageRaise
    ELSE IF in.n[3] = 0 THEN StageNone
    ELSE StageObj(in.n[4])

\* add_trails: the same steps as add_roads
AddTrails(t, in) ==
    IF RaisesOnEmpty(t) THEN StageRaise
    ELSE IF ~in.imported THEN StageNone
    ELSE IF in.n[1] = 0 THEN StageNone
    ELSE IF in.n[2] = 0 THEN StageNone
    ELSE IF in.raises THEN StageRaise
    ELSE IF in.n[3] = 0 THEN StageNone
    ELSE StageObj(in.n[4])

\* add_road_labels: needs road_obj and the shapefile library; reads the names,
\* keeps n[1] candidates, n[2] after the overlap filter, builds the text meshes,
\* bisects
AddRoadLabels(t, road_obj, in) ==
    IF road_obj = NoneObj THEN StageNone
    ELSE IF ~in.library THEN StageNone
    ELSE IF RaisesOnEmpty(t) THEN StageRaise
    ELSE IF ~in.imported THEN StageNone
    ELSE IF in.n[1] = 0 THEN StageNone
    ELSE IF in.n[2] = 0 THEN StageNone
    ELSE IF in.raises THEN StageRaise
    ELSE StageObj(in.n[4])

\* the outcome a stage has when nothing goes wrong
Normal(r) == r.kind = "obj" /\ r.verts > 0

\* execute stores what the stage returned, or its handler catches what it raised
\* (an outcome of kind forcedKind is what the code does by itself there, not a
\* choice of the environment)
Stage(name, r, next, forcedKind) ==
    /\ r.kind = forcedKind \/ Normal(r) \/ CanFault
    /\ faults' = IF r.kind = forcedKind \/ Normal(r) THEN faults ELSE faults + 1
    /\ IF r.kind = "raise"
         THEN /\ Except
              /\ events' = events \cup {<<"overlay", <<name>>, "raise">>}
              /\ UNCHANGED objs
         ELSE /\ objs' = [objs EXCEPT ![name] = r.verts]
              /\ events' = IF Normal(r) THEN events
                           ELSE events \cup {<<"overlay", <<name>>,
                                    IF r.kind = "none" THEN "none" ELSE "empty">>}
              /\ pc' = next
              /\ UNCHANGED <<result, reported>>

ForcedKind(t) == IF RaisesOnEmpty(t) THEN "raise" ELSE "-"

Skip(next) ==
    /\ pc' = next
    /\ UNCHANGED <<objs, result, reported, events, faults>>

\* Step 6
BuildingsStep ==
    /\ pc = "buildings"
    /\ \/ /\ props.building_source = "NONE"
          /\ Skip("roads")
       \/ /\ props.building_source = "SHAPEFILE"
          /\ \E in \in StageInputs :
                Stage("buildings", AddBuildings(terrain, in), "roads",
                      ForcedKind(terrain))
       \/ /\ props.building_source = "CITYJSON"
          /\ \E in \in StageInputs :
                Stage("buildings", AddBuildingsCityjson(terrain, in), "roads",
                      ForcedKind(terrain))
    /\ UNCHANGED <<props, terrain, mods, scene, log, created, notch, cuts,
                   scaled, exported, batch, solid, calc>>

\* Step 7
RoadsStep ==
    /\ pc = "roads"
    /\ \/ /\ ~props.roads
          /\ Skip("trails")
       \/ /\ props.roads
          /\ \E in \in StageInputs :
                Stage("roads", AddRoads(terrain, in), "trails", ForcedKind(terrain))
    /\ UNCHANGED <<props, terrain, mods, scene, log, created, notch, cuts,
                   scaled, exported, batch, solid, calc>>

\* Step 8
TrailsStep ==
    /\ pc = "trails"
    /\ \/ /\ ~props.trails
          /\ Skip("labels")
       \/ /\ props.trails
          /\ \E in \in StageInputs :
                Stage("trails", AddTrails(terrain, in), "labels", ForcedKind(terrain))
    /\ UNCHANGED <<props, terrain, mods, scene, log, created, notch, cuts,
                   scaled, exported, batch, solid, calc>>

\* Step 8b
LabelsStep ==
    /\ pc = "labels"
    /\ \/ /\ ~props.labels
          /\ Skip("text_create")
       \/ /\ props.labels
          /\ \E in \in StageInputs :
                Stage("labels", AddRoadLabels(terrain, objs.roads, in), "text_create",
                      IF objs.roads = NoneObj THEN "none" ELSE ForcedKind(terrain))
    /\ UNCHANGED <<props, terrain, mods, scene, log, created, notch, cuts,
                   scaled, exported, batch, solid, calc>>


----------------------------------------------------------------------------
(* Step 9: add_text_before_scale, and the check of execute that follows it *)

AddTextCreate ==
    /\ pc = "text_create"
    /\ IF RaisesOnEmpty(terrain)
         THEN /\ Except
              /\ UNCHANGED <<scene, created, mods>>
         ELSE /\ scene' = scene \cup {DebossCutter}
              /\ created' = Append(created, DebossCutter)
              /\ mods' = ModifierNew(mods, BoolName(DebossCutter), DebossSolver, DebossCutter)
              /\ pc' = "text_apply"
              /\ UNCHANGED <<result, reported>>
    /\ UNCHANGED <<props, terrain, log, notch, cuts, objs, scaled, exported,
                   events, faults, batch, solid, calc>>

\* the only attempt of the deboss: its failure is printed and nothing is retried
AddTextApply ==
    /\ pc = "text_apply"
    /\ \E out \in Outcomes :
        /\ Allowed(out)
        /\ Count(out)
        /\ TryApply(mods, DebossCutter, BoolName(DebossCutter), DebossSolver, out)
    /\ pc' = "text_remove"
    /\ UNCHANGED <<props, scene, created, notch, cuts, objs, result, reported,
                   scaled, exported, batch, solid, calc>>

\* "if dem_obj is None or len(dem_obj.data.vertices) == 0" after the deboss
TextDestroyedMesh(t) == EmptyMesh(t)

AddTextRemove ==
    /\ pc = "text_remove"
    /\ scene' = scene \ {DebossCutter}
    /\ mods' = ObjectsRemove(mods, DebossCutter)
    /\ IF TextDestroyedMesh(terrain)
         THEN Return("CANCELLED", TRUE)
         ELSE /\ pc' = "cutouts"
              /\ UNCHANGED <<result, reported>>
    /\ UNCHANGED <<props, terrain, log, created, notch, cuts, objs, scaled,
                   exported, events, faults, batch, solid, calc>>

----------------------------------------------------------------------------
(* Step 10: add_alignment_cutouts *)

NumCutouts == Len(CutoutNames)

\* a faulty loop: it is left after its first notch
LeaveAfterFirstNotch(i) == "holes"

\* the statement after the body of the loop for notch i
AfterCutout(i) == IF i < NumCutouts THEN "notch_create" ELSE "holes"

CutoutsBegin ==
    /\ pc = "cutouts"
    /\ IF ~props.cutouts
         THEN /\ pc' = "holes"
              /\ UNCHANGED <<notch, result, reported>>
         ELSE IF RaisesOnEmpty(terrain)
         THEN /\ Except
              /\ UNCHANGED notch
         ELSE /\ notch' = 1
              /\ pc' = "notch_create"
              /\ UNCHANGED <<result, reported>>
    /\ UNCHANGED <<props, terrain, mods, scene, log, created, cuts, objs, scaled,
                   exported, events, faults, batch, solid, calc>>

\* mesh.from_pydata, bpy.data.objects.new, collection.objects.link
CutoutCreate ==
    /\ pc = "notch_create"
    /\ scene' = scene \cup {CutoutObj(notch)}
    /\ created' = Append(created, CutoutObj(notch))
    /\ pc' = "notch_check"
    /\ UNCHANGED <<props, terrain, mods, log, notch, cuts, objs, result, reported,
                   scaled, exported, events, faults, batch, solid, calc>>

\* "ERROR: DEM object missing": the cutter is removed, the notch counted as failed
CutoutMissing ==
    /\ pc = "notch_check"
    /\ EmptyMesh(terrain)
    /\ scene' = scene \ {CutoutObj(notch)}
    /\ mods' = ObjectsRemove(mods, CutoutObj(notch))
    /\ cuts' = [cuts EXCEPT !.failed = @ + 1]
    /\ pc' = AfterCutout(notch)
    /\ notch' = IF notch < NumCutouts THEN notch + 1 ELSE notch
    /\ UNCHANGED <<props, terrain, log, created, objs, result, reported, scaled,
                   exported, events, faults, batch, solid, calc>>

CutoutFirst ==
    /\ pc = "notch_check"
    /\ ~EmptyMesh(terrain)
    /\ \E out \in Outcomes :
        /\ Allowed(out)
        /\ Count(out)
        /\ TryApply(ModifierNew(mods, BoolName(CutoutObj(notch)), CutoutSolver,
                                CutoutObj(notch)),
                    CutoutObj(notch), BoolName(CutoutObj(notch)), CutoutSolver, out)
        /\ pc' = IF out = "raise" THEN "notch_retry" ELSE "notch_remove"
        /\ cuts' = IF out = "raise" THEN cuts ELSE [cuts EXCEPT !.ok = @ + 1]
    /\ UNCHANGED <<props, scene, created, notch, objs, result, reported, scaled,
                   exported, batch, solid, calc>>

CutoutRetry ==
    /\ pc = "notch_retry"
    /\ \E out \in Outcomes :
        /\ Allowed(out)
        /\ Count(out)
        /\ RetryApply(CutoutObj(notch), out)
        /\ cuts' = IF out = "raise" THEN [cuts EXCEPT !.failed = @ + 1]
                   ELSE [cuts EXCEPT !.ok = @ + 1]
    /\ pc' = "notch_remove"
    /\ UNCHANGED <<props, scene, created, notch, objs, result, reported, scaled,
                   exported, batch, solid, calc>>

CutoutRemove ==
    /\ pc = "notch_remove"
    /\ scene' = scene \ {CutoutObj(notch)}
    /\ mods' = ObjectsRemove(mods, CutoutObj(notch))
    /\ pc' = AfterCutout(notch)
    /\ notch' = IF notch < NumCutouts THEN notch + 1 ELSE notch
    /\ UNCHANGED <<props, terrain, log, created, cuts, objs, result, reported,
                   scaled, exported, events, faults, batch, solid, calc>>

----------------------------------------------------------------------------
(* Step 10b: add_mounting_holes *)

HolesCutter == MountingHoleCutters[1]

MountingHolesBegin ==
    /\ pc = "holes"
    /\ IF ~props.holes
         THEN /\ pc' = "scale"
              /\ UNCHANGED <<scene, created, mods, result, reported>>
         ELSE IF RaisesOnEmpty(terrain)
         THEN /\ Except
              /\ UNCHANGED <<scene, created, mods>>
         ELSE /\ scene' = scene \cup {HolesCutter}
              /\ created' = Append(created, HolesCutter)
              /\ mods' = ModifierNew(mods, BoolName(HolesCutter), MountingHolesSolver,
                                     HolesCutter)
              /\ pc' = "holes_first"
              /\ UNCHANGED <<result, reported>>
    /\ UNCHANGED <<props, terrain, log, notch, cuts, objs, scaled, exported,
                   events, faults, batch, solid, calc>>

MountingHolesFirst ==
    /\ pc = "holes_first"
    /\ \E out \in Outcomes :
        /\ Allowed(out)
        /\ Count(out)
        /\ TryApply(mods, HolesCutter, BoolName(HolesCutter), MountingHolesSolver, out)
        /\ pc' = IF out = "raise" THEN "holes_retry" ELSE "holes_remove"
    /\ UNCHANGED <<props, scene, created, notch, cuts, objs, result, reported,
                   scaled, exported, batch, solid, calc>>

MountingHolesRetry ==
    /\ pc = "holes_retry"
    /\ \E out \in Outcomes :
        /\ Allowed(out)
        /\ Count(out)
        /\ RetryApply(HolesCutter, out)
    /\ pc' = "holes_remove"
    /\ UNCHANGED <<props, scene, created, notch, cuts, objs, result, reported,
                   scaled, exported, batch, solid, calc>>

MountingHolesRemove ==
    /\ pc = "holes_remove"
    /\ scene' = scene \ {HolesCutter}
    /\ mods' = ObjectsRemove(mods, HolesCutter)
    /\ pc' = "scale"
    /\ UNCHANGED <<props, terrain, log, created, notch, cuts, objs, result,
                   reported, scaled, exported, events, faults, batch, solid, calc>>

----------------------------------------------------------------------------
(* Steps 11-12: calculate_scale, scale_object, export_stl *)

ScaleStep ==
    /\ pc = "scale"
    /\ IF RaisesOnEmpty(terrain)
         THEN /\ Except
              /\ UNCHANGED scaled
         ELSE /\ scaled' = TRUE
              /\ pc' = "export"
              /\ UNCHANGED <<result, reported>>
    /\ UNCHANGED <<props, terrain, mods, scene, log, created, notch, cuts, objs,
                   exported, events, faults, batch, solid, calc>>

\* the suffix export_stl is called with for each object execute holds
Suffix == [buildings |-> "_buildings", roads |-> "_roads",
           trails |-> "_trails", labels |-> "_road_labels"]

ExportStep ==
    /\ pc = "export"
    /\ exported' = {"_terrain"} \cup
                   {Suffix[k] : k \in {k \in DOMAIN objs : objs[k] # NoneObj}}
    /\ Return("FINISHED", FALSE)
    /\ UNCHANGED <<props, terrain, mods, scene, log, created, notch, cuts, objs,
                   scaled, events, faults, batch, solid, calc>>

Next ==
    \/ ImportDem \/ ApplyModifiers \/ ExtrudeBase
    \/ CutFlatBottomCreate \/ CutFlatBottomFirst \/ CutFlatBottomRetry
    \/ CutFlatBottomRemove
    \/ BuildingsStep \/ RoadsStep \/ TrailsStep \/ LabelsStep
    \/ AddTextCreate \/ AddTextApply \/ AddTextRemove
    \/ CutoutsBegin \/ CutoutCreate \/ CutoutMissing \/ CutoutFirst
    \/ CutoutRetry \/ CutoutRemove
    \/ MountingHolesBegin \/ MountingHolesFirst \/ MountingHolesRetry
    \/ MountingHolesRemove
    \/ ScaleStep \/ ExportStep

Spec == Init /\ [][Next]_vars

----------------------------------------------------------------------------
(* Properties of DEMPRINT_OT_Process.execute *)

IsNotch(c) == c[1] = "Cutout"

\* modifier_apply of cutter c with solver s raised
FailedWith(c, s) ==
    \E i \in DOMAIN log : log[i].cutter = c /\ log[i].solver = s /\ ~log[i].ok

\* the exact attempt and the fast retry of cutter c both raised
BothFailed(c) == FailedWith(c, "EXACT") /\ FailedWith(c, "FAST")

\* cutter c was applied at least once, whatever the outcome
Attempted(c) == \E i \in DOMAIN log : log[i].cutter = c

\* the only things that went wrong in the run are boolean solves that raised
OnlySolverFailures == \A e \in events : e[1] = "solver_failed"

\* the only things that went wrong in the run went wrong inside overlay stages
OnlyOverlayFailures == \A e \in events : e[1] = "overlay"

\* C1: every subtraction (flat bottom, deboss, each notch, the mounting holes)
\* is first attempted with the EXACT solver, and FAST is used only after EXACT
\* raised on the same cutter, at most once per cutter.
C1_ExactFirstFastOnce ==
    \A i \in DOMAIN log :
        LET earlier == {j \in 1..(i - 1) : log[j].cutter = log[i].cutter} IN
        /\ earlier = {} => log[i].solver = "EXACT"
        /\ log[i].solver = "FAST" =>
              /\ \E j \in earlier : log[j].solver = "EXACT" /\ ~log[j].ok
              /\ \A j \in earlier : log[j].solver # "FAST"

\* C2: when both solvers raised for a cutter and nothing else went wrong, the
\* run ends FINISHED with the terrain exported.
C2_BothFailuresAbsorbed ==
    (/\ pc = "done"
     /\ \E c \in Range(created) : BothFailed(c)
     /\ OnlySolverFailures)
    => (result = "FINISHED" /\ "_terrain" \in exported)

\* C3: when both solvers raised for a cutter, the terrain is as it was before
\* the step: the cutter was not subtracted from the mesh, and none of the
\* modifiers made for the cutter is left on the terrain's modifier stack.
C3_FailedCutLeavesTerrain ==
    \A c \in Range(created) :
        BothFailed(c) =>
            /\ c \notin Range(terrain.cuts)
            /\ \A i \in DOMAIN mods : mods[i].name \notin {BoolName(c), RetryName(c)}

\* the order of the notches
NotchOrder ==
    << <<"Cutout", "South_W">>, <<"Cutout", "South_E">>,
       <<"Cutout", "North_W">>, <<"Cutout", "North_E">>,
       <<"Cutout", "West_S">>, <<"Cutout", "West_N">>,
       <<"Cutout", "East_S">>, <<"Cutout", "East_N">> >>

\* the notch cutters made so far, in the order they were made
NotchesMade == SelectSeq(created, IsNotch)

\* the position of a notch cutter in NotchOrder
NotchIndex(c) == CHOOSE k \in DOMAIN NotchOrder : NotchOrder[k] = c

\* add_alignment_cutouts has returned
NotchLoopDone ==
    /\ NotchesMade # <<>>
    /\ pc \notin {"notch_create", "notch_check", "notch_retry", "notch_remove"}

\* C4 (as stated): when add_alignment_cutouts has returned, each of the eight
\* notch cutters has been applied to the terrain.
C4_EightAttempts ==
    NotchLoopDone => \A k \in DOMAIN NotchOrder : Attempted(NotchOrder[k])

\* C4 (amended): the notch cutters are made in the order South_W, South_E,
\* North_W, North_E, West_S, West_N, East_S, East_N; at most one of them is
\* alive, and it is the one made last; the solves are in the same order, at
\* most two per cutter; a cutter is left without a solve only when the terrain
\* has no vertices, and is then counted as failed; when the loop has returned
\* all eight cutters were made and removed and successful_cuts + failed_cuts = 8.
C4_NotchLoop ==
    LET made == NotchesMade
        n == Len(made)
        alive == {c \in scene : IsNotch(c)}
        solves == SelectSeq(log, LAMBDA e : IsNotch(e.cutter))
        finished == IF NotchLoopDone THEN n ELSE n - 1
    IN
    /\ n <= Len(NotchOrder)
    /\ \A k \in 1..n : made[k] = NotchOrder[k]
    /\ Cardinality(alive) <= 1
    /\ \A c \in alive : c = made[n]
    /\ \A i \in DOMAIN solves : solves[i].cutter \in Range(made)
    /\ \A i \in 1..(Len(solves) - 1) :
          NotchIndex(solves[i].cutter) <= NotchIndex(solves[i + 1].cutter)
    /\ \A c \in Range(made) :
          Cardinality({i \in DOMAIN solves : solves[i].cutter = c}) <= 2
    /\ \A k \in 1..finished :
          /\ made[k] \notin scene
          /\ Attempted(made[k]) \/ EmptyMesh(terrain)
    /\ NotchLoopDone =>
          /\ n = Len(NotchOrder)
          /\ cuts.ok + cuts.failed = Len(NotchOrder)
          /\ cuts.failed >=
                Cardinality({k \in 1..n : ~Attempted(made[k])})

\* a notch emptied the terrain, the notches after it were skipped, and the loop
\* went on to its end
C4_Witness ==
    /\ NotchLoopDone
    /\ \E k \in 1..3 : <<"emptied", NotchOrder[k], "EXACT">> \in events
    /\ ~Attempted(NotchOrder[8])
    /\ cuts.failed >= 1
    /\ Len(NotchesMade) = 8

\* C5: the four corner cylinders are subtracted one cutter at a time: each
\* mounting-hole cutter holds the cylinder of one corner.
C5_OneCylinderPerCutter ==
    \A c \in Range(created) :
        CylindersOf(c) # {} => Cardinality(CylindersOf(c)) = 1

\* the flat-bottom cut or the deboss left the terrain without vertices
TerrainLost ==
    \E s \in {"EXACT", "FAST"} :
        \/ <<"emptied", BottomCutter, s>> \in events
        \/ <<"emptied", DebossCutter, s>> \in events

\* C7: when the terrain has no vertices after the flat-bottom cut or after the
\* deboss, no notch and no mounting hole is cut, nothing is scaled, nothing is
\* exported, and the run ends CANCELLED with an error reported.
C7_TerrainLossCancels ==
    TerrainLost =>
        /\ \A c \in Range(created) : ~IsNotch(c) /\ CylindersOf(c) = {}
        /\ ~scaled
        /\ exported = {}
        /\ pc = "done" => (result = "CANCELLED" /\ reported)

\* the flat-bottom cut emptied the terrain and the run has ended
C7_Witness ==
    /\ pc = "done"
    /\ \E s \in {"EXACT", "FAST"} : <<"emptied", BottomCutter, s>> \in events
    /\ EmptyMesh(terrain)
    /\ result = "CANCELLED"

\* C8: when everything that went wrong went wrong inside overlay stages (an
\* import failed, a stage returned None, a stage raised), the run ends FINISHED.
C8_OverlayFailureConfined ==
    (pc = "done" /\ events # {} /\ OnlyOverlayFailures) => result = "FINISHED"

\* C9: an object an overlay stage returned has at least one vertex.
C9_ReturnedOverlayHasVertices ==
    \A k \in DOMAIN objs : objs[k] # NoneObj => objs[k] >= 1

----------------------------------------------------------------------------
(* DEMPRINT_OT_BatchProcess.execute.  A file of the batch folder is its     *)
(* path and its extension; a path is the rank of the path string in the     *)
(* order of strings, so that comparing ranks is comparing the strings.      *)

MaxFiles == 3       \* files in the batch folder

\* valid_extensions
ValidExtensions == {".tif", ".tiff", ".asc", ".dem", ".hgt", ".img"}

\* the extensions the files of the folder have, as the file system spells them
FolderExtensions == {".tif", ".TIF", ".hgt", ".txt"}

\* str.lower() on the extensions of the folder
Lower(ext) == IF ext = ".TIF" THEN ".tif" ELSE ext

\* os.path.splitext(f)[1].lower() in valid_extensions
IsDem(f) == Lower(f.ext) \in ValidExtensions

\* the loops over os.walk / os.listdir: the files kept, in listing order
CollectDems(listing) == SelectSeq(listing, IsDem)

\* a faulty sort: the list is left in listing order
ListingOrder(s) == s

RECURSIVE InsertPath(_, _)
InsertPath(f, s) ==
    IF s = <<>> THEN <<f>>
    ELSE IF f.path <= Head(s).path THEN <<f>> \o s
    ELSE <<Head(s)>> \o InsertPath(f, Tail(s))

RECURSIVE SortedPaths(_)
SortedPaths(s) ==
    IF s = <<>> THEN <<>> ELSE InsertPath(Head(s), SortedPaths(Tail(s)))

\* dem_files.sort()
SortPaths(s) == SortedPaths(s)

\* what bpy.ops.demprint.process() does in the batch loop: it returns
\* {'FINISHED'}, returns {'CANCELLED'}, or raises
ProcessOutcomes == {"FINISHED", "CANCELLED", "raise"}

\* the listings a folder of at most MaxFiles files can give: distinct paths in
\* any order, each with an extension
Listings ==
    UNION {{l \in [1..n -> [path : 1..MaxFiles, ext : FolderExtensions]] :
               \A i, j \in 1..n : i # j => l[i].path # l[j].path} : n \in 0..MaxFiles}

\* the variables of execute when the batch operator or the geometry is what is run
IdleRun ==
    /\ props = [cutouts |-> FALSE, holes |-> FALSE, building_source |-> "NONE",
                roads |-> FALSE, trails |-> FALSE, labels |-> FALSE]
    /\ pc = "idle"
    /\ terrain = [verts |-> 0, cuts |-> <<>>]
    /\ mods = <<>>
    /\ scene = {}
    /\ log = <<>>
    /\ created = <<>>
    /\ notch = 0
    /\ cuts = [ok |-> 0, failed |-> 0]
    /\ objs = [buildings |-> NoneObj, roads |-> NoneObj,
               trails |-> NoneObj, labels |-> NoneObj]
    /\ result = "RUNNING"
    /\ reported = FALSE
    /\ scaled = FALSE
    /\ exported = {}
    /\ events = {}
    /\ faults = 0

InitBatch ==
    /\ IdleRun
    /\ solid = IdleSolid
    /\ calc = IdleCalc
    /\ \E l \in Listings : batch = [IdleBatch EXCEPT !.pc = "discover", !.listing = l]

\* the discovery of the DEM files, the check that there are some, the sort,
\* and the statements before the loop
BatchDiscover ==
    /\ batch.pc = "discover"
    /\ LET dem_files == CollectDems(batch.listing) IN
       IF dem_files = <<>>
         THEN batch' = [batch EXCEPT !.pc = "done", !.result = "CANCELLED",
                                     !.reported = TRUE]
         ELSE batch' = [batch EXCEPT !.pc = "loop", !.dem_files = SortPaths(dem_files),
                                     !.original_dem = batch.dem_file, !.i = 1]
    /\ UNCHANGED runVars
    /\ UNCHANGED <<solid, calc>>

\* one iteration of the loop: props.dem_file is set, the scene is cleared, the
\* tile is processed and counted, the scene is cleared again
BatchTile ==
    /\ batch.pc = "loop"
    /\ batch.i <= Len(batch.dem_files)
    /\ \E out \in ProcessOutcomes :
        batch' = [batch EXCEPT
            !.dem_file = batch.dem_files[batch.i].path,
            !.processed = Append(@, batch.dem_files[batch.i]),
            !.outcomes = Append(@, out),
            !.successful = IF out = "FINISHED" THEN @ + 1 ELSE @,
            !.failed = IF out = "FINISHED" THEN @ ELSE @ + 1,
            !.i = @ + 1]
    /\ UNCHANGED runVars
    /\ UNCHANGED <<solid, calc>>

\* after the loop: props.dem_file is restored and the operator returns
BatchFinish ==
    /\ batch.pc = "loop"
    /\ batch.i > Len(batch.dem_files)
    /\ batch' = [batch EXCEPT !.pc = "done", !.dem_file = batch.original_dem,
                              !.result = "FINISHED"]
    /\ UNCHANGED runVars
    /\ UNCHANGED <<solid, calc>>

NextBatch == BatchDiscover \/ BatchTile \/ BatchFinish

SpecBatch == InitBatch /\ [][NextBatch]_vars

\* the DEM files of the folder
DemsOfFolder == {f \in Range(batch.listing) : IsDem(f)}

----------------------------------------------------------------------------
(* extrude_base and cut_flat_bottom on a terrain profile.  The terrain is a  *)
(* strip of quads over vertices at x = 0, Spacing, 2*Spacing, ... with       *)
(* heights h; the tile is square.  A part of a solid is the interval of z it *)
(* covers.                                                                   *)

NumVerts == 3           \* vertices of the profile
Spacing == 50           \* distance between neighbouring vertices

\* heights of the terrain's vertices
HeightValues == {0, 1, 6000}

\* the depth extrude_base is called with (props.extrude_depth is 100..20000)
DepthValues == {10, 100, 7000}

\* props.cut_elevation
CutValues == {-7000, -100, -9, 0, 1, 3000, 6000}

Min(a, b) == IF a <= b THEN a ELSE b
Max(a, b) == IF a >= b THEN a ELSE b
SetMin(S) == CHOOSE x \in S : \A y \in S : x <= y
SetMax(S) == CHOOSE x \in S : \A y \in S : x >= y

InitCut ==
    /\ IdleRun
    /\ batch = IdleBatch
    /\ calc = IdleCalc
    /\ \E h \in [1..NumVerts -> HeightValues], d \in DepthValues,
          auto \in BOOLEAN, c \in CutValues :
          solid = [IdleSolid EXCEPT !.pc = "extrude", !.h = h, !.depth = d,
                                    !.auto = auto, !.manual = c]

\* extrude_region_move of every face by (0, 0, -depth): each quad of the
\* terrain becomes the block between the quad and its copy depth below
Extruded(h, depth) ==
    [k \in 1..(Len(h) - 1) |->
        [x0 |-> (k - 1) * Spacing, x1 |-> k * Spacing,
         lo |-> Min(h[k], h[k + 1]) - depth, hi |-> Max(h[k], h[k + 1])]]

SolidExtrudeBase ==
    /\ solid.pc = "extrude"
    /\ solid' = [solid EXCEPT !.pc = "elevation", !.segs = Extruded(solid.h, solid.depth)]
    /\ UNCHANGED runVars
    /\ UNCHANGED <<batch, calc>>

\* the bounding box of the solid
MinX(segs) == SetMin({segs[k].x0 : k \in DOMAIN segs})
MaxX(segs) == SetMax({segs[k].x1 : k \in DOMAIN segs})
MinZ(segs) == SetMin({segs[k].lo : k \in DOMAIN segs})
MaxZ(segs) == SetMax({segs[k].hi : k \in DOMAIN segs})

\* calculate_cut_elevation
CalculateCutElevation(segs, auto, manual) ==
    IF auto THEN MinZ(segs) - 1 ELSE manual

SolidCalculateCutElevation ==
    /\ solid.pc = "elevation"
    /\ solid' = [solid EXCEPT !.pc = "cut",
           !.cut_elevation = CalculateCutElevation(solid.segs, solid.auto, solid.manual)]
    /\ UNCHANGED runVars
    /\ UNCHANGED <<batch, calc>>

\* the least height the cutter is given
MinCutterZSize == 50000

\* cutter_xy_size and cutter_z_size (both come out even here, so the halves
\* below are exact)
CutterXYSize(segs) == (MaxX(segs) - MinX(segs)) * 3
CutterZSize(segs) == Max((MaxZ(segs) - MinZ(segs)) * 10, MinCutterZSize)

\* a faulty placement: the cutter is centred on the cut elevation
CutterCentredOnCut(cut_elevation, z_size) == cut_elevation

\* cutter_z, the centre of the cutter
CutterZ(cut_elevation, z_size) == cut_elevation - (z_size \div 2)

\* the cube Bottom_Cutter after transform_apply
Cutter(segs, cut_elevation) ==
    LET xy == CutterXYSize(segs)
        zs == CutterZSize(segs)
        cx == (MinX(segs) + MaxX(segs)) \div 2
        cz == CutterZ(cut_elevation, zs)
    IN [x0 |-> cx - (xy \div 2), x1 |-> cx + (xy \div 2),
        z0 |-> cz - (zs \div 2), z1 |-> cz + (zs \div 2)]

\* what the boolean DIFFERENCE leaves of one block: the block itself where the
\* cutter does not reach it, else what lies above and what lies below the cutter
Difference(seg, cutter) ==
    IF cutter.x1 <= seg.x0 \/ seg.x1 <= cutter.x0 \/ cutter.z1 <= seg.lo
       \/ seg.hi <= cutter.z0
      THEN {[lo |-> seg.lo, hi |-> seg.hi]}
    ELSE IF ~(cutter.x0 <= seg.x0 /\ seg.x1 <= cutter.x1)
      THEN {[lo |-> seg.lo, hi |-> seg.hi]}
    ELSE (IF seg.hi > cutter.z1
            THEN {[lo |-> Max(seg.lo, cutter.z1), hi |-> seg.hi]} ELSE {})
         \cup
         (IF seg.lo < cutter.z0
            THEN {[lo |-> seg.lo, hi |-> Min(seg.hi, cutter.z0)]} ELSE {})

\* cut_flat_bottom with a solver that succeeds
CutFlatBottom(segs, cut_elevation) ==
    UNION {Difference(segs[k], Cutter(segs, cut_elevation)) : k \in DOMAIN segs}

SolidCutFlatBottom ==
    /\ solid.pc = "cut"
    /\ solid' = [solid EXCEPT !.pc = "done",
                              !.pieces = CutFlatBottom(solid.segs, solid.cut_elevation)]
    /\ UNCHANGED runVars
    /\ UNCHANGED <<batch, calc>>

NextCut == SolidExtrudeBase \/ SolidCalculateCutElevation \/ SolidCutFlatBottom

SpecCut == InitCut /\ [][NextCut]_vars

\* the Z range of the terrain surface the solid was made from
SurfaceLow == SetMin(Range(solid.h))
SurfaceHigh == SetMax(Range(solid.h))

\* the Z range of the bounding box of what is left of the solid
BoundsZ(pieces) ==
    <<SetMin({p.lo : p \in pieces}), SetMax({p.hi : p \in pieces})>>

\* C10: for a terrain with Z range [zlo, zhi], a base of depth d and a manual
\* cut elevation c with zlo - d <= c < zhi, the solid left by extrude_base and
\* cut_flat_bottom has the Z range [c, zhi].
C10_FlatBottomBounds ==
    (/\ solid.pc = "done"
     /\ ~solid.auto
     /\ SurfaceLow - solid.depth <= solid.manual
     /\ solid.manual < SurfaceHigh)
    => /\ solid.pieces # {}
       /\ BoundsZ(solid.pieces) = <<solid.manual, SurfaceHigh>>

\* an uneven terrain cut above the bottom of its base, part of it lying wholly
\* below the cut
C10_Witness ==
    /\ solid.pc = "done"
    /\ ~solid.auto
    /\ solid.h = <<0, 1, 6000>>
    /\ solid.depth = 100
    /\ solid.manual = 1
    /\ BoundsZ(solid.pieces) = <<1, 6000>>

----------------------------------------------------------------------------
(* add_buildings_cityjson: the vertical alignment of the buildings.          *)
(* Lengths are in tenths of a metre, so that 0.5 is the integer 5.           *)

\* the specifications below run one computation each and leave the rest idle
others == <<runVars, batch, solid>>

IdleOthers == IdleRun /\ batch = IdleBatch /\ solid = IdleSolid

Abs(a) == IF a >= 0 THEN a ELSE -a

MaxBuildingVerts == 3       \* vertices of the CityJSON file

\* real-world Z of the CityJSON vertices (v[2] * scale[2] + translate[2])
BuildingZValues == {0, 3, 5000}

\* Z of the terrain where a ray can hit it; the terrain's Z range is their range
TerrainZValues == {0, 5, 120}

\* props.building_depth (1.0 .. 50.0)
BuildingDepthValues == {10, 100}

\* what terrain_bvh.ray_cast returns for a vertex: a hit location or None
RayResults == {[hit |-> FALSE, z |-> 0]} \cup [hit : {TRUE}, z : TerrainZValues]

\* the margin by which the Z ranges must miss each other to count as a mismatch
MismatchMargin == 1000

\* the coarse offset computed before the vertices are transformed
CoarseOffset(zs, terrain_min_z, terrain_max_z) ==
    LET cityjson_min_z == SetMin(Range(zs))
        cityjson_max_z == SetMax(Range(zs))
    IN IF cityjson_min_z > terrain_max_z + MismatchMargin
          \/ cityjson_max_z < terrain_min_z - MismatchMargin
         THEN ((terrain_min_z + terrain_max_z) \div 2) - cityjson_min_z
         ELSE 0

\* the Blender coordinates of the vertices: each keeps its own X and Y
Transformed(zs, z_offset) ==
    [i \in DOMAIN zs |-> [x |-> 10 * i, y |-> 7 * i, z |-> zs[i] + z_offset]]

\* sorted(enumerate(vertices), key=z): the vertex indices by ascending Z, ties
\* in index order
\* the place of vertex i among the first k in that order
PlaceByZ(i, k, vs) ==
    1 + Cardinality({j \in 1..k : \/ vs[j].z < vs[i].z
                                  \/ vs[j].z = vs[i].z /\ j < i})

SortedByZ(k, vs) ==
    LET place == [i \in 1..k |-> PlaceByZ(i, k, vs)]
    IN [p \in 1..k |-> CHOOSE i \in 1..k : place[i] = p]

\* a sample of a tenth of the vertices and no more
SampleCountDecile(n) == n \div 10

\* sample_count = max(10, len(sorted_verts) // 10)
SampleCount(n) == Max(10, n \div 10)

\* sorted_verts[:sample_count]
GroundFloorVerts(vs) ==
    LET order == SortedByZ(Len(vs), vs)
    IN SubSeq(order, 1, Min(SampleCount(Len(vs)), Len(order)))

\* the loop over ground_floor_verts: terrain Z minus building Z of every hit
RECURSIVE ZDifferences(_, _, _)
ZDifferences(ground, vs, rays) ==
    IF ground = <<>> THEN <<>>
    ELSE LET i == Head(ground)
             rest == ZDifferences(Tail(ground), vs, rays)
         IN IF rays[i].hit THEN <<rays[i].z - vs[i].z>> \o rest ELSE rest

\* list.sort() of numbers
RECURSIVE InsertNum(_, _)
InsertNum(a, srt) ==
    IF srt = <<>> THEN <<a>>
    ELSE IF a <= Head(srt) THEN <<a>> \o srt
    ELSE <<Head(srt)>> \o InsertNum(a, Tail(srt))

RECURSIVE SortNums(_)
SortNums(q) == IF q = <<>> THEN <<>> ELSE InsertNum(Head(q), SortNums(Tail(q)))

\* z_differences[len(z_differences) // 2] (0-based) of the sorted list
ZAdjustment(sorted) == sorted[(Len(sorted) \div 2) + 1]

\* the deadband, 0.5
Deadband == 5

\* a faulty deadband: every adjustment is applied
AlwaysSignificant(z_adjustment) == TRUE

\* abs(z_adjustment) > 0.5
Significant(z_adjustment) == Abs(z_adjustment) > Deadband

\* vert.co.z += dz for every vertex
ShiftZ(vs, dz) == [i \in DOMAIN vs |-> [vs[i] EXCEPT !.z = @ + dz]]

InitAlign ==
    /\ IdleOthers
    /\ \E n \in 1..MaxBuildingVerts :
         \E zs \in [1..n -> BuildingZValues], rays \in [1..n -> RayResults],
            depth \in BuildingDepthValues :
            calc = [pc |-> "transform", raw |-> zs, rays |-> rays,
                    building_depth |-> depth, z_offset |-> 0, before |-> <<>>,
                    verts |-> <<>>, z_differences |-> <<>>, z_adjustment |-> 0,
                    clipped |-> <<>>, warned |-> FALSE, returned |-> "pending"]

\* the first pass over the Z range and the transform of the vertices
AlignTransform ==
    /\ calc.pc = "transform"
    /\ LET off == CoarseOffset(calc.raw, SetMin(TerrainZValues), SetMax(TerrainZValues))
       IN calc' = [calc EXCEPT !.pc = "sample", !.z_offset = off,
                               !.verts = Transformed(calc.raw, off)]
    /\ UNCHANGED others

\* the rays cast from above the ground-floor candidates
AlignSample ==
    /\ calc.pc = "sample"
    /\ calc' = [calc EXCEPT !.pc = "adjust", !.before = calc.verts,
           !.z_differences =
               SortNums(ZDifferences(GroundFloorVerts(calc.verts), calc.verts, calc.rays))]
    /\ UNCHANGED others

\* "if z_differences: ... else: WARNING"
AlignAdjust ==
    /\ calc.pc = "adjust"
    /\ IF calc.z_differences # <<>>
         THEN LET adj == ZAdjustment(calc.z_differences)
              IN calc' = [calc EXCEPT !.pc = "clip", !.z_adjustment = adj,
                     !.verts = IF Significant(adj) THEN ShiftZ(calc.verts, adj)
                               ELSE calc.verts]
         ELSE calc' = [calc EXCEPT !.pc = "clip", !.warned = TRUE]
    /\ UNCHANGED others

\* the four bisects (kept: the vertices they leave), the move down by
\* building_depth, and the final check
AlignClipExtend ==
    /\ calc.pc = "clip"
    /\ \E kept \in SUBSET DOMAIN calc.verts :
         LET left == SelectSeq(calc.verts, LAMBDA v : \E i \in kept : calc.verts[i] = v)
         IN calc' = [calc EXCEPT !.pc = "done",
                !.clipped = left,
                !.verts = ShiftZ(left, -calc.building_depth),
                !.returned = IF left = <<>> THEN "None" ELSE "obj"]
    /\ UNCHANGED others

NextAlign == AlignTransform \/ AlignSample \/ AlignAdjust \/ AlignClipExtend

SpecAlign == InitAlign /\ [][NextAlign]_vars

\* the fine alignment has run (or was skipped)
Aligned == calc.pc \in {"clip", "done"}

\* twice the median of a sorted list of numbers
TwiceMedian(sorted) ==
    LET n == Len(sorted)
    IN IF n % 2 = 1 THEN 2 * sorted[(n + 1) \div 2]
       ELSE sorted[n \div 2] + sorted[(n \div 2) + 1]

\* C11: the Z offset the aligner computes is the median of the differences
\* terrain Z - building Z over the sampled vertices whose ray hit the terrain:
\* the middle element for an odd number of hits, the value midway between the
\* two middle elements for an even number.
C11_OffsetIsMedian ==
    (Aligned /\ calc.z_differences # <<>>)
    => 2 * calc.z_adjustment = TwiceMedian(calc.z_differences)

\* C12: when the magnitude of the computed offset exceeds the deadband every
\* building vertex has its Z increased by that offset and keeps its X and Y;
\* when it does not, no vertex is changed.
C12_DeadbandShift ==
    (calc.pc = "clip" /\ calc.z_differences # <<>>)
    => IF Abs(calc.z_adjustment) > 5
         THEN /\ Len(calc.verts) = Len(calc.before)
              /\ \A i \in DOMAIN calc.verts :
                    /\ calc.verts[i].z = calc.before[i].z + calc.z_adjustment
                    /\ calc.verts[i].x = calc.before[i].x
                    /\ calc.verts[i].y = calc.before[i].y
         ELSE calc.verts = calc.before

\* every sample gave the delta 12.0 and every vertex went up by 12.0
C12_Witness ==
    /\ calc.pc = "clip"
    /\ calc.z_differences = <<120, 120, 120>>
    /\ calc.z_adjustment = 120
    /\ \A i \in DOMAIN calc.verts : calc.verts[i].z = calc.before[i].z + 120

\* C13: when no ray hits the terrain the alignment is skipped: the Z of every
\* building vertex is the Z of the dataset after scale and translate, and a
\* warning is given.
C13_NoHitsNoOffset ==
    (calc.pc = "clip" /\ calc.z_differences = <<>>)
    => /\ calc.warned
       /\ \A i \in DOMAIN calc.verts : calc.verts[i].z = calc.raw[i]

----------------------------------------------------------------------------
(* The boundary clip: four bisects at the edges of the terrain rectangle.    *)
(* A mesh is a set of edges.  An edge is the part [t0, t1] of the line from  *)
(* its original end p (t = 0) to its original end q (t = ParamUnit); an edge *)
(* with t0 = t1 is a loose vertex.  ParamUnit is a multiple of every         *)
(* coordinate difference of the grid, so every cut falls on an integer t.    *)

\* coordinates of the overlay's vertices along X and along Y, and their Z
GridValues == {-1, 0, 1, 3}
GridZValues == {0, 5}

\* terrain_min_x, terrain_max_x, terrain_min_y, terrain_max_y
ClipRect == [min_x |-> 0, max_x |-> 2, min_y |-> 0, max_y |-> 2]

ParamUnit == 3 * 4

GridPoints == [x : GridValues, y : GridValues, z : GridZValues]

\* plane_co and plane_no of the four bisects
WestPlaneCo == [x |-> ClipRect.min_x, y |-> 0, z |-> 0]
WestPlaneNo == [x |-> 1, y |-> 0, z |-> 0]
EastPlaneCo == [x |-> ClipRect.max_x, y |-> 0, z |-> 0]

\* a faulty normal: the east cut keeps what lies beyond the east edge
EastPlaneNoOutward == [x |-> 1, y |-> 0, z |-> 0]

EastPlaneNo == [x |-> -1, y |-> 0, z |-> 0]
SouthPlaneCo == [x |-> 0, y |-> ClipRect.min_y, z |-> 0]
SouthPlaneNo == [x |-> 0, y |-> 1, z |-> 0]
NorthPlaneCo == [x |-> 0, y |-> ClipRect.max_y, z |-> 0]
NorthPlaneNo == [x |-> 0, y |-> -1, z |-> 0]

\* the signed distance of a point from the plane, along the plane's normal
Side(pt, co, no) ==
    (pt.x - co.x) * no.x + (pt.y - co.y) * no.y + (pt.z - co.z) * no.z

\* bisect with clear_inner: what the cut leaves of one edge.  The part of the
\* edge on the negative side of the plane goes, a new vertex is made where the
\* edge crosses the plane
BisectEdge(e, co, no) ==
    LET sp == Side(e.p, co, no)
        sq == Side(e.q, co, no)
    IN IF sp = sq
         THEN IF sp >= 0 THEN {e} ELSE {}
       ELSE IF sq > sp
         THEN LET tc == (ParamUnit * (0 - sp)) \div (sq - sp)
                  lo == Max(e.t0, tc)
              IN IF lo <= e.t1 THEN {[e EXCEPT !.t0 = lo]} ELSE {}
       ELSE LET tc == (ParamUnit * sp) \div (sp - sq)
                hi == Min(e.t1, tc)
            IN IF e.t0 <= hi THEN {[e EXCEPT !.t1 = hi]} ELSE {}

\* select_all(SELECT) and bpy.ops.mesh.bisect(..., clear_inner=True, clear_outer=False)
Bisect(mesh, co, no) == UNION {BisectEdge(e, co, no) : e \in mesh}

\* the coordinates, in units of 1/ParamUnit, of the point t of an edge
PointAt(e, t) ==
    [x |-> ParamUnit * e.p.x + (e.q.x - e.p.x) * t,
     y |-> ParamUnit * e.p.y + (e.q.y - e.p.y) * t,
     z |-> ParamUnit * e.p.z + (e.q.z - e.p.z) * t]

\* the vertices of a mesh
MeshVerts(mesh) == {PointAt(e, e.t0) : e \in mesh} \cup {PointAt(e, e.t1) : e \in mesh}

InitClip ==
    /\ IdleOthers
    /\ \E p \in GridPoints, q \in GridPoints :
         LET mesh == {[p |-> p, q |-> q, t0 |-> 0, t1 |-> ParamUnit]}
         IN calc = [pc |-> "west", pass |-> 1, input |-> mesh, mesh |-> mesh,
                    once |-> {}]

ClipWest ==
    /\ calc.pc = "west"
    /\ calc' = [calc EXCEPT !.pc = "east",
                            !.mesh = Bisect(calc.mesh, WestPlaneCo, WestPlaneNo)]
    /\ UNCHANGED others

ClipEast ==
    /\ calc.pc = "east"
    /\ calc' = [calc EXCEPT !.pc = "south",
                            !.mesh = Bisect(calc.mesh, EastPlaneCo, EastPlaneNo)]
    /\ UNCHANGED others

ClipSouth ==
    /\ calc.pc = "south"
    /\ calc' = [calc EXCEPT !.pc = "north",
                            !.mesh = Bisect(calc.mesh, SouthPlaneCo, SouthPlaneNo)]
    /\ UNCHANGED others

\* the last cut of a clip; the clip is then run once more on its own result
ClipNorth ==
    /\ calc.pc = "north"
    /\ LET mesh == Bisect(calc.mesh, NorthPlaneCo, NorthPlaneNo)
       IN calc' = IF calc.pass = 1
                    THEN [calc EXCEPT !.pc = "west", !.pass = 2, !.mesh = mesh,
                                      !.once = mesh]
                    ELSE [calc EXCEPT !.pc = "done", !.mesh = mesh]
    /\ UNCHANGED others

NextClip == ClipWest \/ ClipEast \/ ClipSouth \/ ClipNorth

SpecClip == InitClip /\ [][NextClip]_vars

\* a point (in units of 1/ParamUnit) lies within the terrain rectangle
WithinRect(pt) ==
    /\ 12 * 0 <= pt.x /\ pt.x <= 12 * 2
    /\ 12 * 0 <= pt.y /\ pt.y <= 12 * 2

\* an original end of an edge of the input that lies within the rectangle
InputVertsWithin ==
    {pt \in MeshVerts(calc.input) : WithinRect(pt)}

\* C14: after the four cuts every vertex of the mesh has min X <= x <= max X
\* and min Y <= y <= max Y; every vertex of the input that lies within the
\* rectangle is still a vertex of the mesh, at the same X, Y and Z; and the
\* four cuts applied again to the result leave it as it is.
C14_ClipWithinAndIdempotent ==
    (calc.pass = 2 \/ calc.pc = "done")
    => /\ \A pt \in MeshVerts(calc.once) : WithinRect(pt)
       /\ InputVertsWithin \subseteq MeshVerts(calc.once)
       /\ \A pt \in MeshVerts(calc.mesh) : WithinRect(pt)
       /\ calc.pc = "done" => calc.mesh = calc.once

\* an edge that enters the rectangle through its west edge and leaves it through
\* its north edge was cut at both, and the second clip left the result alone
C14_Witness ==
    /\ calc.pc = "done"
    /\ \E e \in calc.input :
          e.p = [x |-> -1, y |-> 0, z |-> 0] /\ e.q = [x |-> 3, y |-> 3, z |-> 5]
    /\ \E e \in calc.mesh : e.t0 = 3 /\ e.t1 = 8
    /\ calc.mesh = calc.once

\* ---------------------------------------------------------------------------
\* Draping an overlay on the terrain: lift, project down, prune
\* (add_roads, add_buildings).  Heights are in metres.
\* ---------------------------------------------------------------------------

MaxOverlayVerts == 3

\* lift_height = terrain_max_z + 500 (roads), + 1000 (buildings)
RoadLift == 500
BuildingLift == 1000

\* threshold_z = terrain_max_z + 100
RejectMargin == 100

\* heights the vertices of the imported overlay have of their own
OverlayZValues == {0, -450, 1500}

\* heights of the terrain under a vertex, and its highest vertex
GroundZValues == {0, 120}
TerrainMaxZ == 60 * 2

\* a vertex of the overlay: whether its XY is within the terrain's footprint,
\* the height it was imported with, and the terrain's height at its XY
OverlayVerts ==
    [inside : BOOLEAN, z0 : OverlayZValues, ground : GroundZValues]

\* obj.location.z = lift_height; transform_apply(location=True): the location
\* is added to every vertex
Lifted(v, lift_height) == v.z0 + lift_height

\* the Shrinkwrap modifier, PROJECT along -Z: a vertex with the terrain below
\* it lands on the terrain, any other vertex stays where it is
Shrinkwrapped(v, z) ==
    IF v.inside /\ z >= v.ground THEN v.ground ELSE z

InitProject ==
    /\ IdleOthers
    /\ \E n \in 1..MaxOverlayVerts :
       \E vs \in [1..n -> OverlayVerts] :
       \E lift \in {RoadLift, BuildingLift} :
          calc = [pc |-> "lift",
                  lift_height |-> TerrainMaxZ + lift,
                  threshold_z |-> TerrainMaxZ + RejectMargin,
                  verts |-> vs,
                  z |-> [i \in 1..n |-> vs[i].z0],
                  lifted |-> [i \in 1..n |-> vs[i].z0],
                  deleted |-> {},
                  returned |-> "none"]

ProjectLift ==
    /\ calc.pc = "lift"
    /\ LET z == [i \in DOMAIN calc.verts |->
                    Lifted(calc.verts[i], calc.lift_height)]
       IN calc' = [calc EXCEPT !.pc = "shrinkwrap", !.z = z, !.lifted = z]
    /\ UNCHANGED others

ProjectShrinkwrap ==
    /\ calc.pc = "shrinkwrap"
    /\ calc' = [calc EXCEPT
                   !.pc = "prune",
                   !.z = [i \in DOMAIN calc.verts |->
                             Shrinkwrapped(calc.verts[i], calc.z[i])]]
    /\ UNCHANGED others

\* the vertices above the threshold are selected and deleted; an overlay left
\* with no vertex is removed and None returned
ProjectPrune ==
    /\ calc.pc = "prune"
    /\ LET high_verts == {i \in DOMAIN calc.verts : calc.z[i] > calc.threshold_z}
       IN calc' = [calc EXCEPT
                      !.pc = "done",
                      !.deleted = high_verts,
                      !.returned = IF high_verts = DOMAIN calc.verts
                                      THEN "None" ELSE "obj"]
    /\ UNCHANGED others

NextProject == ProjectLift \/ ProjectShrinkwrap \/ ProjectPrune

SpecProject == InitProject /\ [][NextProject]_vars

\* the vertices of the overlay whose XY is outside the terrain's footprint
OutsideFootprint == {i \in DOMAIN calc.verts : ~calc.verts[i].inside}

\* C15: once an overlay whose every vertex was lifted above the terrain's
\* highest Z has been projected and pruned, the deleted vertices are exactly
\* those whose XY is outside the terrain's footprint (none, if all are inside).
C15_DeletedAreOutside ==
    (/\ calc.pc = "done"
     /\ \A i \in DOMAIN calc.verts : calc.lifted[i] > TerrainMaxZ)
    => calc.deleted = OutsideFootprint

\* ---------------------------------------------------------------------------
\* The overlap filter of the road labels (add_road_labels).  Lengths are in
\* metres; a label candidate is (name, x, y), the names of the candidates being
\* distinct (seen_names) and standing here for their place in labeled_roads.
\* ---------------------------------------------------------------------------

MaxLabels == 4

\* road_label_size (min 5.0)
LabelSizeValues == {5, 10}

\* the anchors the candidates are drawn from
AnchorValues ==
    {<<0, 0>>, <<2, 0>>, <<9, 12>>, <<16, 0>>, <<40, 0>>}

\* min_distance = props.road_label_size * 3
MinDistance(road_label_size) == road_label_size * 3

\* a comparison that also rejects a label exactly min_distance away
DistWithin(x, y, ox, oy, min_distance) ==
    (x - ox) * (x - ox) + (y - oy) * (y - oy) <= min_distance * min_distance

\* dist = ((x - ox)**2 + (y - oy)**2)**0.5; dist < min_distance, compared by
\* the squares
DistBelow(x, y, ox, oy, min_distance) ==
    (x - ox) * (x - ox) + (y - oy) * (y - oy) < min_distance * min_distance

\* the inner loop over the labels already added
TooClose(road, filtered_roads, min_distance) ==
    \E k \in DOMAIN filtered_roads :
       DistBelow(road.x, road.y, filtered_roads[k].x, filtered_roads[k].y,
                 min_distance)

InitOverlap ==
    /\ IdleOthers
    /\ \E n \in 1..MaxLabels :
       \E at \in [1..n -> AnchorValues] :
       \E size \in LabelSizeValues :
          calc = [pc |-> "filter",
                  labeled_roads |-> [i \in 1..n |->
                      [name |-> i, x |-> at[i][1], y |-> at[i][2]]],
                  min_distance |-> MinDistance(size),
                  i |-> 1,
                  filtered_roads |-> <<>>]

\* one pass of the loop over labeled_roads
OverlapCheck ==
    /\ calc.pc = "filter"
    /\ calc.i <= Len(calc.labeled_roads)
    /\ LET road == calc.labeled_roads[calc.i]
           too_close == TooClose(road, calc.filtered_roads, calc.min_distance)
       IN calc' = [calc EXCEPT
                      !.i = calc.i + 1,
                      !.filtered_roads =
                          IF too_close THEN calc.filtered_roads
                                       ELSE Append(calc.filtered_roads, road)]
    /\ UNCHANGED others

\* the loop is over
OverlapDone ==
    /\ calc.pc = "filter"
    /\ calc.i > Len(calc.labeled_roads)
    /\ calc' = [calc EXCEPT !.pc = "done"]
    /\ UNCHANGED others

NextOverlap == OverlapCheck \/ OverlapDone

SpecOverlap == InitOverlap /\ [][NextOverlap]_vars

\* the names of the accepted candidates
Accepted == {calc.filtered_roads[k].name : k \in DOMAIN calc.filtered_roads}

\* the anchors of candidates i and j are closer than the minimum separation
Closer(i, j) ==
    LET a == calc.labeled_roads[i]
        b == calc.labeled_roads[j]
    IN (a.x - b.x) * (a.x - b.x) + (a.y - b.y) * (a.y - b.y)
          < calc.min_distance * calc.min_distance

\* the filter took the candidates greedily, in the order of discovery
GreedyInOrder ==
    /\ 1 \in Accepted
    /\ \A i \in DOMAIN calc.labeled_roads :
          i \in Accepted <=> \A j \in 1..(i - 1) : j \in Accepted => ~Closer(j, i)
    /\ \A i, j \in Accepted : i # j => ~Closer(i, j)
    /\ \A k \in 1..(Len(calc.filtered_roads) - 1) :
          calc.filtered_roads[k].name < calc.filtered_roads[k + 1].name

\* C16 (as stated): the filter is greedy in discovery order, the accepted
\* anchors are pairwise at least the minimum separation apart, and of any two
\* candidates closer than the minimum separation exactly one, the earlier, is
\* retained.
C16_EarlierOfClosePairKept ==
    calc.pc = "done"
    => /\ GreedyInOrder
       /\ \A i, j \in DOMAIN calc.labeled_roads :
             (i < j /\ Closer(i, j)) => (i \in Accepted /\ j \notin Accepted)

\* C16 (amended): the filter is greedy in discovery order, the accepted anchors
\* are pairwise at least the minimum separation apart, and of any two candidates
\* closer than the minimum separation at most one is retained: the earlier,
\* unless the earlier was itself rejected for an accepted anchor before it.
C16_GreedyOverlapFilter ==
    calc.pc = "done"
    => /\ GreedyInOrder
       /\ \A i, j \in DOMAIN calc.labeled_roads :
             (i < j /\ Closer(i, j))
             => /\ ~(i \in Accepted /\ j \in Accepted)
                /\ i \notin Accepted
                   => \E k \in 1..(i - 1) : k \in Accepted /\ Closer(k, i)
                /\ (i \in Accepted) => j \notin Accepted

\* three candidates in a row, each closer than the minimum separation to the one
\* before it, the third exactly the minimum separation from the first: the
\* second is rejected and the third accepted
C16_Witness ==
    /\ calc.pc = "done"
    /\ calc.min_distance = 15
    /\ Len(calc.labeled_roads) = 3
    /\ Closer(1, 2) /\ Closer(2, 3) /\ ~Closer(1, 3)
    /\ calc.labeled_roads[1].x = 0 /\ calc.labeled_roads[3].y = 12
    /\ Accepted = {1, 3}

\* ---------------------------------------------------------------------------
\* Creating the label solids (add_road_labels, after the overlap filter), and
\* the road body they are to pass through (add_roads).  Heights are in
\* twentieths of a metre, so that 0.5 m is 10 and half of a sum of two settings
\* is a whole number.
\* ---------------------------------------------------------------------------

\* the abbreviations dict, in its order
abbreviations ==
    << <<" Street", " St">>, <<" Avenue", " Ave">>, <<" Boulevard", " Blvd">>,
       <<" Drive", " Dr">>, <<" Road", " Rd">>, <<" Lane", " Ln">>,
       <<" Court", " Ct">>, <<" Place", " Pl">>, <<" Circle", " Cir">>,
       <<" Trail", " Tr">>, <<" Way", " Wy">>, <<" Terrace", " Ter">>,
       <<" Highway", " Hwy">>, <<" Parkway", " Pkwy">>, <<" Heights", " Hts">>,
       <<" Point", " Pt">>, <<" Square", " Sq">>, <<" North", " N">>,
       <<" South", " S">>, <<" East", " E">>, <<" West", " W">> >>

\* a test that finds the suffix at the end or one place before it
EndsNear(name, full) ==
    /\ Len(name) > Len(full)
    /\ \/ SubSeq(name, Len(name) - Len(full) + 1, Len(name)) = full
       \/ SubSeq(name, Len(name) - Len(full), Len(name) - 1) = full

\* name.endswith(full)
EndsWith(name, full) ==
    /\ Len(name) >= Len(full)
    /\ SubSeq(name, Len(name) - Len(full) + 1, Len(name)) = full

\* name[:-len(full)] + abbrev
Replaced(name, full, abbrev) ==
    SubSeq(name, 1, Len(name) - Len(full)) \o abbrev

\* the loop of abbreviate_name from rule k on: the first rule whose suffix the
\* name ends with is applied and the loop left
RECURSIVE AbbreviateFrom(_, _)
AbbreviateFrom(name, k) ==
    IF k > Len(abbreviations) THEN name
    ELSE IF EndsWith(name, abbreviations[k][1])
         THEN Replaced(name, abbreviations[k][1], abbreviations[k][2])
         ELSE AbbreviateFrom(name, k + 1)

abbreviate_name(name) == AbbreviateFrom(name, 1)

\* the names of the roads, stripped of leading and trailing blanks
NameStarts == {"Main", "Old North", "Main Street", "Highway"}
NameEnds ==
    {abbreviations[k][1] : k \in DOMAIN abbreviations}
    \cup {"", " St", "street", " Streets"}
RoadNames == {s \o e : s \in NameStarts, e \in NameEnds}

\* the lists of roads that passed the filter
FilteredRoads ==
    {<<n>> : n \in RoadNames} \cup {<<"Main Street", n>> : n \in RoadNames}

\* road_height (0.1 to 20.0), road_depth (1.0 to 50.0), road_label_height (1.0
\* to 20.0), and the height of the terrain under a label
RoadHeightValues == {2, 30, 400}
RoadDepthValues == {20, 1000}
LabelHeightValues == {20, 40, 100, 400}
LabelGroundValues == {0, 100}

\* shrinkwrap.offset = props.road_height + 0.5
ShrinkOffset == 10

\* label_raise = 1.5
LabelRaise == 30

\* total_label_depth
TotalLabelDepth(p) == p.road_height + p.road_depth + p.road_label_height

\* the flat text lands on the terrain, offset upwards
DrapedZ(ground, p) == ground + p.road_height + ShrinkOffset

\* the label solid: the draped text, extruded downwards, then raised
LabelTop(ground, p) == DrapedZ(ground, p) + LabelRaise
LabelBottom(ground, p) == DrapedZ(ground, p) - TotalLabelDepth(p) + LabelRaise

\* the road body on the same ground: the profile is centred on the draped
\* centreline and the body then moved by road_height - half_height
HalfHeight(p) == (p.road_height + p.road_depth) \div 2
RoadTop(ground, p) == ground + HalfHeight(p) + (p.road_height - HalfHeight(p))
RoadBottom(ground, p) == ground - HalfHeight(p) + (p.road_height - HalfHeight(p))

InitLabel ==
    /\ IdleOthers
    /\ \E roads \in FilteredRoads :
       \E h \in RoadHeightValues, d \in RoadDepthValues :
       \E l \in LabelHeightValues :
       \E ground \in [DOMAIN roads -> LabelGroundValues] :
          calc = [pc |-> "labels",
                  filtered_roads |-> roads,
                  ground |-> ground,
                  props |-> [road_height |-> h, road_depth |-> d,
                             road_label_height |-> l],
                  i |-> 1,
                  label_objects |-> <<>>,
                  returned |-> "none"]

\* one pass of the loop over filtered_roads
CreateLabel ==
    /\ calc.pc = "labels"
    /\ calc.i <= Len(calc.filtered_roads)
    /\ LET name == calc.filtered_roads[calc.i]
           ground == calc.ground[calc.i]
           mesh_obj == [body |-> abbreviate_name(name),
                        top |-> LabelTop(ground, calc.props),
                        bottom |-> LabelBottom(ground, calc.props),
                        road_top |-> RoadTop(ground, calc.props),
                        road_bottom |-> RoadBottom(ground, calc.props)]
       IN calc' = [calc EXCEPT
                      !.i = calc.i + 1,
                      !.label_objects = Append(calc.label_objects, mesh_obj)]
    /\ UNCHANGED others

\* the labels are joined, cut at the terrain's sides and returned
JoinLabels ==
    /\ calc.pc = "labels"
    /\ calc.i > Len(calc.filtered_roads)
    /\ calc' = [calc EXCEPT !.pc = "done", !.returned = "obj"]
    /\ UNCHANGED others

NextLabel == CreateLabel \/ JoinLabels

SpecLabel == InitLabel /\ [][NextLabel]_vars

\* the rules of the table, as a set
RuleSet == {abbreviations[k] : k \in DOMAIN abbreviations}

\* the last Len(s) characters of n are s
HasSuffix(n, s) ==
    Len(n) >= Len(s) /\ SubSeq(n, Len(n) - Len(s) + 1, Len(n)) = s

\* the rules whose suffix is at the very end of n
RulesFor(n) == {r \in RuleSet : HasSuffix(n, r[1])}

\* C17: the text of every label made is the name of its road with the suffix at
\* its very end replaced as the table says, by one rule and once; a name that
\* ends in no suffix of the table is the text as it is.
C17_TextIsAbbreviatedName ==
    \A k \in DOMAIN calc.label_objects :
       LET n == calc.filtered_roads[k]
           body == calc.label_objects[k].body
       IN /\ Cardinality(RulesFor(n)) <= 1
          /\ RulesFor(n) = {} => body = n
          /\ \A r \in RulesFor(n) :
                body = SubSeq(n, 1, Len(n) - Len(r[1])) \o r[2]
          /\ n = "Main Street" => body = "Main St"

\* labels were made for 'Main Street' and for a name with a suffix of the table
\* inside it and another at its end
C17_Witness ==
    /\ calc.pc = "done"
    /\ Len(calc.label_objects) = 2
    /\ calc.filtered_roads = <<"Main Street", "Main Street North">>
    /\ calc.label_objects[1].body = "Main St"
    /\ calc.label_objects[2].body = "Main Street N"

\* C18: every label solid made reaches from the bottom of the road body or
\* below it (terrain - road_depth) to the top of the road or above it
\* (terrain + road_height), on the ground it was draped on.
C18_LabelSpansRoad ==
    \A k \in DOMAIN calc.label_objects :
       LET o == calc.label_objects[k]
       IN /\ o.road_top = calc.ground[k] + calc.props.road_height
          /\ o.road_bottom = calc.ground[k] - calc.props.road_depth
          /\ o.bottom <= o.road_bottom
          /\ o.top >= o.road_top

\* ---------------------------------------------------------------------------
\* Geometry of the bottom cutters: the eight notch prisms
\* (add_alignment_cutouts) and the four corner cylinders (add_mounting_holes).
\* Settings in millimetres are held in tenths of a millimetre, percentages in
\* percent, lengths of the scene in metres; the values are chosen so that every
\* quotient below is exact.
\* ---------------------------------------------------------------------------

\* dem_obj.dimensions.x and .y, the south-west corner and the lowest Z of the
\* solid
TileWidthValues == {4000, 2000}
TileCornerValues == {0, -1000}
TileMinZValues == {0, -40}

\* output_width (mm); cutout_size, cutout_depth (tenths of a mm); cutout_inset,
\* cutout_edge_inset (percent); mounting_hole_inset (percent)
OutputWidthValues == {200, 100}
CutoutSizeValues == {10, 50}
CutoutDepthValues == {5, 30}
CutoutInsetValues == {5, 25, 45}
CutoutEdgeInsetValues == {0, 20, 100}
HoleInsetValues == {10}

\* (setting / 1000) / future_scale, future_scale = output_width /
\* (model_width_m * 1000)
ToMetres(setting, cfg) ==
    (setting * cfg.model_width_m) \div (10 * cfg.output_width)

\* length * (percent / 100.0)
Pct(length, percent) == (length * percent) \div 100

\* an offset that grows towards the inside of the tile as the inset falls
EdgeOffsetInward(half_size, edge_inset) ==
    (half_size * (100 - 2 * edge_inset)) \div 100

\* edge_offset = half_size * (2 * edge_inset_pct - 1)
EdgeOffset(half_size, edge_inset) ==
    (half_size * (2 * edge_inset - 100)) \div 100

\* math.cos(rot_z), math.sin(rot_z) of the four angles of cutout_configs
Cos(rot_z) ==
    CASE rot_z = "pi" -> -1 [] rot_z = "0" -> 1
      [] rot_z = "pi/2" -> 0 [] rot_z = "-pi/2" -> 0
Sin(rot_z) ==
    CASE rot_z = "pi" -> 0 [] rot_z = "0" -> 0
      [] rot_z = "pi/2" -> 1 [] rot_z = "-pi/2" -> -1

\* what add_alignment_cutouts computes before its loop
CutoutSetup(cfg) ==
    LET size_m == ToMetres(cfg.cutout_size, cfg)
        depth_m == ToMetres(cfg.cutout_depth, cfg)
        half_size == size_m \div 2
        extension_m == depth_m * 2
    IN [half_size |-> half_size,
        width |-> cfg.max_x - cfg.min_x,
        height |-> cfg.max_y - cfg.min_y,
        edge_offset |-> EdgeOffset(half_size, cfg.cutout_edge_inset),
        z_bottom |-> cfg.min_z - extension_m,
        z_top |-> cfg.min_z + depth_m + (extension_m \div 10)]

\* cutout_configs: (center_x, center_y, rotation_angle) of each name
CutoutConfig(cfg, name) ==
    LET s == CutoutSetup(cfg)
        along_x == Pct(s.width, cfg.cutout_inset)
        along_y == Pct(s.height, cfg.cutout_inset)
    IN CASE name = "South_W" ->
              <<cfg.min_x + along_x, cfg.min_y + s.edge_offset, "pi">>
         [] name = "South_E" ->
              <<cfg.max_x - along_x, cfg.min_y + s.edge_offset, "pi">>
         [] name = "North_W" ->
              <<cfg.min_x + along_x, cfg.max_y - s.edge_offset, "0">>
         [] name = "North_E" ->
              <<cfg.max_x - along_x, cfg.max_y - s.edge_offset, "0">>
         [] name = "West_S" ->
              <<cfg.min_x + s.edge_offset, cfg.min_y + along_y, "pi/2">>
         [] name = "West_N" ->
              <<cfg.min_x + s.edge_offset, cfg.max_y - along_y, "pi/2">>
         [] name = "East_S" ->
              <<cfg.max_x - s.edge_offset, cfg.min_y + along_y, "-pi/2">>
         [] name = "East_N" ->
              <<cfg.max_x - s.edge_offset, cfg.max_y - along_y, "-pi/2">>

\* a point of local_pts in world coordinates
ToWorld(lx, ly, cx, cy, rot_z) ==
    [x |-> lx * Cos(rot_z) - ly * Sin(rot_z) + cx,
     y |-> lx * Sin(rot_z) + ly * Cos(rot_z) + cy]

\* the prism of one cutout: the triangle of local_pts, from z_bottom to z_top
Prism(cfg, name) ==
    LET s == CutoutSetup(cfg)
        c == CutoutConfig(cfg, name)
    IN [name |-> name,
        apex |-> ToWorld(0, s.half_size, c[1], c[2], c[3]),
        base_left |-> ToWorld(-s.half_size, -s.half_size, c[1], c[2], c[3]),
        base_right |-> ToWorld(s.half_size, -s.half_size, c[1], c[2], c[3]),
        z_bottom |-> s.z_bottom,
        z_top |-> s.z_top]

\* the four cylinders of add_mounting_holes: their centres and their Z range
\* (extension_m = 1.0)
HoleCylinders(cfg) ==
    LET depth_m == ToMetres(cfg.cutout_depth, cfg)
        inset_x == Pct(cfg.max_x - cfg.min_x, cfg.mounting_hole_inset)
        inset_y == Pct(cfg.max_y - cfg.min_y, cfg.mounting_hole_inset)
    IN [hole_positions |->
           << <<cfg.min_x + inset_x, cfg.min_y + inset_y, "SW">>,
              <<cfg.max_x - inset_x, cfg.min_y + inset_y, "SE">>,
              <<cfg.min_x + inset_x, cfg.max_y - inset_y, "NW">>,
              <<cfg.max_x - inset_x, cfg.max_y - inset_y, "NE">> >>,
        z_bottom |-> cfg.min_z - 1,
        z_top |-> cfg.min_z + depth_m]

NoCylinders == [hole_positions |-> <<>>, z_bottom |-> 0, z_top |-> 0]

InitCutters ==
    /\ IdleOthers
    /\ \E w \in TileWidthValues, corner \in TileCornerValues :
       \E min_z \in TileMinZValues, out \in OutputWidthValues :
       \E size \in CutoutSizeValues, depth \in CutoutDepthValues :
       \E inset \in CutoutInsetValues, edge \in CutoutEdgeInsetValues :
       \E hole \in HoleInsetValues :
          calc = [pc |-> "cutouts",
                  cfg |-> [min_x |-> corner, max_x |-> corner + w,
                           min_y |-> corner, max_y |-> corner + (3 * w) \div 4,
                           min_z |-> min_z,
                           model_width_m |-> w,
                           output_width |-> out,
                           cutout_size |-> size,
                           cutout_depth |-> depth,
                           cutout_inset |-> inset,
                           cutout_edge_inset |-> edge,
                           mounting_hole_inset |-> hole],
                  i |-> 1,
                  prisms |-> <<>>,
                  holes |-> NoCylinders]

\* one pass of the loop over cutout_configs: the prism is built
CutterPrism ==
    /\ calc.pc = "cutouts"
    /\ calc.i <= Len(CutoutNames)
    /\ calc' = [calc EXCEPT
                   !.i = calc.i + 1,
                   !.prisms = Append(calc.prisms,
                                     Prism(calc.cfg, CutoutNames[calc.i]))]
    /\ UNCHANGED others

\* add_mounting_holes builds its cylinders
CutterCylinders ==
    /\ calc.pc = "cutouts"
    /\ calc.i > Len(CutoutNames)
    /\ calc' = [calc EXCEPT !.pc = "done", !.holes = HoleCylinders(calc.cfg)]
    /\ UNCHANGED others

NextCutters == CutterPrism \/ CutterCylinders

SpecCutters == InitCutters /\ [][NextCutters]_vars

\* the edge of the tile a notch is on; how far a point lies beyond that edge,
\* outwards; and how far along the edge it lies from the corner the notch is
\* named after
EdgeOf(name) ==
    CASE name \in {"South_W", "South_E"} -> "South"
      [] name \in {"North_W", "North_E"} -> "North"
      [] name \in {"West_S", "West_N"} -> "West"
      [] name \in {"East_S", "East_N"} -> "East"

Beyond(pt, name) ==
    CASE EdgeOf(name) = "South" -> calc.cfg.min_y - pt.y
      [] EdgeOf(name) = "North" -> pt.y - calc.cfg.max_y
      [] EdgeOf(name) = "West" -> calc.cfg.min_x - pt.x
      [] EdgeOf(name) = "East" -> pt.x - calc.cfg.max_x

FromCorner(pt, name) ==
    CASE name \in {"South_W", "North_W"} -> pt.x - calc.cfg.min_x
      [] name \in {"South_E", "North_E"} -> calc.cfg.max_x - pt.x
      [] name \in {"West_S", "East_S"} -> pt.y - calc.cfg.min_y
      [] name \in {"West_N", "East_N"} -> calc.cfg.max_y - pt.y

EdgeLength(name) ==
    IF EdgeOf(name) \in {"South", "North"}
       THEN calc.cfg.max_x - calc.cfg.min_x
       ELSE calc.cfg.max_y - calc.cfg.min_y

\* the triangle size s, in metres
TriangleSize ==
    (calc.cfg.cutout_size * calc.cfg.model_width_m)
       \div (10 * calc.cfg.output_width)

\* the corners of a prism's triangle, and their mirror images about the
\* midpoint of the edge the notch is on
Corners(p) == {p.apex, p.base_left, p.base_right}

Mirrored(p) ==
    IF EdgeOf(p.name) \in {"South", "North"}
       THEN {[x |-> calc.cfg.min_x + calc.cfg.max_x - c.x, y |-> c.y] :
                c \in Corners(p)}
       ELSE {[x |-> c.x, y |-> calc.cfg.min_y + calc.cfg.max_y - c.y] :
                c \in Corners(p)}

\* C19: of every notch prism built, the apex is the corner farthest outwards
\* of its edge, s * (1 - e/100) beyond the edge (on the edge at e = 100; at
\* e = 0 the base is on the edge and the triangle outside the tile); its axis
\* is cutout_inset percent of the edge length from the nearer corner; and the
\* two notches of an edge are mirror images about the middle of the edge.
C19_NotchGeometry ==
    \A k \in DOMAIN calc.prisms :
       LET p == calc.prisms[k]
           e == calc.cfg.cutout_edge_inset
       IN /\ p.name = CutoutNames[k]
          /\ Beyond(p.apex, p.name) > Beyond(p.base_left, p.name)
          /\ Beyond(p.apex, p.name) > Beyond(p.base_right, p.name)
          /\ 100 * Beyond(p.apex, p.name) = TriangleSize * (100 - e)
          /\ e = 100 => Beyond(p.apex, p.name) = 0
          /\ e = 0 => \A c \in Corners(p) : Beyond(c, p.name) >= 0
          /\ e = 0 => Beyond(p.base_left, p.name) = 0
                      /\ Beyond(p.base_right, p.name) = 0
          /\ 100 * FromCorner(p.apex, p.name)
                = EdgeLength(p.name) * calc.cfg.cutout_inset
          /\ 2 * FromCorner(p.apex, p.name) < EdgeLength(p.name)
          /\ FromCorner(p.base_left, p.name) + FromCorner(p.base_right, p.name)
                = 2 * FromCorner(p.apex, p.name)
          /\ \A j \in DOMAIN calc.prisms :
                (j # k /\ EdgeOf(calc.prisms[j].name) = EdgeOf(p.name))
                => Corners(calc.prisms[j]) = Mirrored(p)

\* all eight prisms were built for a 5 mm triangle with an edge inset of 20 %
\* on a 4000 m tile printed 200 mm wide: the apex of the first is 80 m south of
\* the south edge, 1000 m from the west corner
C19_Witness ==
    /\ Len(calc.prisms) = 8
    /\ calc.cfg.cutout_edge_inset = 20 /\ calc.cfg.cutout_inset = 25
    /\ calc.cfg.cutout_size = 50 /\ calc.cfg.min_x = 0
    /\ calc.cfg.model_width_m = 4000 /\ calc.cfg.output_width = 200
    /\ calc.prisms[1].apex = [x |-> 1000, y |-> -80]
    /\ calc.prisms[8].apex.x = 4080

\* C20: the cylinders of the mounting holes reach as far above the lowest Z of
\* the solid as the notch prisms do.
C20_SameCuttingDepth ==
    calc.pc = "done"
    => \A k \in DOMAIN calc.prisms :
          calc.holes.z_top - calc.cfg.min_z
             = calc.prisms[k].z_top - calc.cfg.min_z

\* ---------------------------------------------------------------------------
\* The cutter meshes given to from_pydata as vertex and face lists: the notch
\* prism (add_alignment_cutouts), the arrow prism (create_north_arrow) and the
\* combined cylinders (add_mounting_holes).  Vertices are counted, faces are
\* tuples of vertex indices from 0, as in the code.
\* ---------------------------------------------------------------------------

\* segments = 16
Segments == 16

\* prism_faces of add_alignment_cutouts; faces of create_north_arrow
PrismFaces ==
    << <<0, 2, 1>>, <<3, 4, 5>>, <<0, 1, 4, 3>>, <<1, 2, 5, 4>>, <<2, 0, 3, 5>> >>
ArrowFaces ==
    << <<0, 2, 1>>, <<3, 4, 5>>, <<0, 1, 4, 3>>, <<1, 2, 5, 4>>, <<2, 0, 3, 5>> >>

\* a side quad of the cylinder whose vertices start at v
SideFace(v, i) ==
    LET i_next == (i + 1) % Segments
    IN <<v + i, v + i_next, v + Segments + i_next, v + Segments + i>>

\* a bottom cap triangle wound as the top cap is
BottomCapFaceAsTop(v, i) ==
    LET i_next == (i + 1) % Segments
    IN <<v + 2 * Segments, v + i, v + i_next>>

\* a triangle of the bottom cap: (bottom_center_idx, v + i_next, v + i)
BottomCapFace(v, i) ==
    LET i_next == (i + 1) % Segments
    IN <<v + 2 * Segments, v + i_next, v + i>>

\* a triangle of the top cap
TopCapFace(v, i) ==
    LET i_next == (i + 1) % Segments
    IN <<v + 2 * Segments + 1, v + Segments + i, v + Segments + i_next>>

InitMesh ==
    /\ IdleOthers
    /\ \E kind \in {"notch", "arrow", "holes"} :
          calc = [pc |-> kind, kind |-> kind, hole |-> 1, part |-> "verts",
                  i |-> 0,
                  vert_offset |-> 0, verts |-> 0, faces |-> <<>>]

\* the six vertices and five faces of a notch prism
MeshNotchPrism ==
    /\ calc.pc = "notch"
    /\ calc' = [calc EXCEPT !.pc = "done", !.verts = 6, !.faces = PrismFaces]
    /\ UNCHANGED others

\* the six vertices and five faces of the north arrow
MeshArrowPrism ==
    /\ calc.pc = "arrow"
    /\ calc' = [calc EXCEPT !.pc = "done", !.verts = 6, !.faces = ArrowFaces]
    /\ UNCHANGED others

\* the vertices of one cylinder: bottom circle, top circle, the two centres
MeshCylinderVerts ==
    /\ calc.pc = "holes" /\ calc.part = "verts"
    /\ calc.hole <= Len(HolePositions)
    /\ calc' = [calc EXCEPT !.part = "side", !.i = 0,
                            !.verts = calc.verts + 2 * Segments + 2]
    /\ UNCHANGED others

\* one pass of one of the three face loops of a cylinder; after the last pass
\* of the last loop vert_offset moves on to the next cylinder
MeshCylinderFace ==
    /\ calc.pc = "holes" /\ calc.part \in {"side", "bottom", "top"}
    /\ LET v == calc.vert_offset
           face == CASE calc.part = "side" -> SideFace(v, calc.i)
                     [] calc.part = "bottom" -> BottomCapFace(v, calc.i)
                     [] calc.part = "top" -> TopCapFace(v, calc.i)
           last == calc.i = Segments - 1
           faces == Append(calc.faces, face)
       IN calc' =
             IF ~last
                THEN [calc EXCEPT !.i = calc.i + 1, !.faces = faces]
             ELSE IF calc.part = "side"
                THEN [calc EXCEPT !.i = 0, !.part = "bottom", !.faces = faces]
             ELSE IF calc.part = "bottom"
                THEN [calc EXCEPT !.i = 0, !.part = "top", !.faces = faces]
             ELSE [calc EXCEPT !.i = 0, !.part = "verts", !.faces = faces,
                               !.hole = calc.hole + 1,
                               !.vert_offset = v + 2 * Segments + 2]
    /\ UNCHANGED others

\* the combined mesh is made of all_verts and all_faces
MeshHolesCombined ==
    /\ calc.pc = "holes" /\ calc.part = "verts"
    /\ calc.hole > Len(HolePositions)
    /\ calc' = [calc EXCEPT !.pc = "done"]
    /\ UNCHANGED others

NextMesh ==
    \/ MeshNotchPrism \/ MeshArrowPrism \/ MeshCylinderVerts
    \/ MeshCylinderFace \/ MeshHolesCombined

SpecMesh == InitMesh /\ [][NextMesh]_vars

\* the edges of a face, in the direction the face goes round them
DirectedEdges(f) == {<<f[k], f[(k % Len(f)) + 1]>> : k \in 1..Len(f)}

\* the number of faces of the mesh that go along edge e in its direction
Along(e) ==
    Cardinality({k \in DOMAIN calc.faces : e \in DirectedEdges(calc.faces[k])})

\* C21: every cutter mesh built from vertex and face lists is closed and
\* consistently wound: each face index is that of a vertex of the mesh, and
\* each edge of a face is gone along once in each direction, by two faces.
C21_CuttersAreManifold ==
    calc.pc = "done" /\ calc.faces # <<>>
    => \A k \in DOMAIN calc.faces :
          /\ \A j \in DOMAIN calc.faces[k] :
                calc.faces[k][j] >= 0 /\ calc.faces[k][j] < calc.verts
          /\ \A e \in DirectedEdges(calc.faces[k]) :
                /\ e[1] # e[2]
                /\ Along(e) = 1
                /\ Along(<<e[2], e[1]>>) = 1

\* the combined mesh of the four cylinders is complete: 4 * 34 vertices and
\* 4 * 48 faces, the last one the closing triangle of the last top cap
C21_Witness ==
    /\ calc.pc = "done"
    /\ calc.verts = 136
    /\ Len(calc.faces) = 192
    /\ calc.faces[192] = <<135, 133, 118>>

\* C22: with the cut elevation calculated automatically, what extrude_base and
\* cut_flat_bottom leave of the solid has its lowest Z at the calculated cut
\* elevation, and its bottom is flat there.
C22_AutoCutFlatBottom ==
    (solid.pc = "done" /\ solid.auto)
    => /\ solid.pieces # {}
       /\ BoundsZ(solid.pieces)[1] = solid.cut_elevation
       /\ \A p \in solid.pieces : p.lo = solid.cut_elevation

\* the lowest and the highest Z of a list of vertices
LowestZ(vs) == SetMin({vs[i].z : i \in DOMAIN vs})
HighestZ(vs) == SetMax({vs[i].z : i \in DOMAIN vs})

\* C23: when the aligned and clipped building mesh is returned it has been
\* extended downwards by building_depth: its lowest Z is building_depth lower
\* than after clipping and its highest Z is where it was.
C23_ExtendedDownward ==
    (calc.pc = "done" /\ calc.returned = "obj")
    => /\ LowestZ(calc.verts) = LowestZ(calc.clipped) - calc.building_depth
       /\ HighestZ(calc.verts) = HighestZ(calc.clipped)

\* ---------------------------------------------------------------------------
\* The loop of add_road_labels that turns the named roads into label
\* candidates (labeled_roads).  Lengths are in metres.  The polylines tried have
\* their segments parallel to an axis and coordinates that are multiples of
\* four, so that lengths, midpoints and the sines and cosines are exact.
\* ---------------------------------------------------------------------------

MaxRoads == 3

\* the terrain's bounding box
Tile == [min_x |-> 0, max_x |-> 100, min_y |-> 0, max_y |-> 100]

\* props.road_label_size and props.road_label_min_length
LabelSize == 5 * 2
MinLengthValues == {8, 50}

Pt(x, y) == [x |-> x, y |-> y]

\* blender_points of the roads
Polylines ==
    { <<Pt(20, 52), Pt(60, 52)>>,
      <<Pt(60, 52), Pt(20, 52)>>,
      <<Pt(-40, 52), Pt(20, 52)>>,
      <<Pt(60, 20), Pt(60, 52), Pt(120, 52)>>,
      <<Pt(20, 20), Pt(20, 52)>>,
      <<Pt(-40, 120), Pt(120, 120)>>,
      <<Pt(20, 52), Pt(24, 52)>> }

CandidateNames == {"Main Street", "Old Terrace", "Elm"}

\* the table used for the estimate of the label's width
EstimateRules ==
    << <<" Street", " St">>, <<" Avenue", " Ave">>, <<" Boulevard", " Blvd">>,
       <<" Drive", " Dr">>, <<" Road", " Rd">>, <<" Lane", " Ln">>,
       <<" Court", " Ct">>, <<" Place", " Pl">>, <<" Circle", " Cir">>,
       <<" Trail", " Tr">>, <<" Way", " Wy">>, <<" Heights", " Hts">> >>

RECURSIVE EstimateFrom(_, _)
EstimateFrom(name, k) ==
    IF k > Len(EstimateRules) THEN name
    ELSE IF EndsWith(name, EstimateRules[k][1])
         THEN Replaced(name, EstimateRules[k][1], EstimateRules[k][2])
         ELSE EstimateFrom(name, k + 1)

\* terrain_min_x <= p[0] <= terrain_max_x and terrain_min_y <= p[1] <= ...
PointInside(p) ==
    /\ Tile.min_x <= p.x /\ p.x <= Tile.max_x
    /\ Tile.min_y <= p.y /\ p.y <= Tile.max_y

\* the test that puts segment (p1, p2) in inside_segments
SegmentTaken(p1, p2) ==
    \/ PointInside(p1) \/ PointInside(p2)
    \/ /\ Min(p1.x, p2.x) <= Tile.max_x /\ Max(p1.x, p2.x) >= Tile.min_x
       /\ Min(p1.y, p2.y) <= Tile.max_y /\ Max(p1.y, p2.y) >= Tile.min_y

\* inside_segments, as the list of the indices of their first points
InsideSegments(pts) ==
    SelectSeq([k \in 1..(Len(pts) - 1) |-> k],
              LAMBDA k : SegmentTaken(pts[k], pts[k + 1]))

\* ((dx)**2 + (dy)**2)**0.5 of a segment parallel to an axis
SegLen(p1, p2) == Abs(p2.x - p1.x) + Abs(p2.y - p1.y)

\* inside_length: the sum over the first n of the inside segments
RECURSIVE LengthOf(_, _, _)
LengthOf(pts, segs, n) ==
    IF n = 0 THEN 0
    ELSE LengthOf(pts, segs, n - 1) + SegLen(pts[segs[n]], pts[segs[n] + 1])

\* math.atan2(dy, dx) of a segment parallel to an axis
Atan2(p1, p2) ==
    IF p2.y > p1.y THEN "pi/2"
    ELSE IF p2.y < p1.y THEN "-pi/2"
    ELSE IF p2.x < p1.x THEN "pi" ELSE "0"

\* the walk along inside_segments to half of inside_length, from segment n on
RECURSIVE MidFrom(_, _, _, _, _)
MidFrom(pts, segs, n, current_dist, target_dist) ==
    IF n > Len(segs)
       THEN [x |-> pts[segs[1]].x, y |-> pts[segs[1]].y, angle |-> "0"]
    ELSE LET p1 == pts[segs[n]]
             p2 == pts[segs[n] + 1]
             seg_len == SegLen(p1, p2)
         IN IF current_dist + seg_len >= target_dist
               THEN IF seg_len > 0
                       THEN [x |-> p1.x + ((target_dist - current_dist)
                                              * (p2.x - p1.x)) \div seg_len,
                             y |-> p1.y + ((target_dist - current_dist)
                                              * (p2.y - p1.y)) \div seg_len,
                             angle |-> Atan2(p1, p2)]
                       ELSE [x |-> p1.x, y |-> p1.y, angle |-> Atan2(p1, p2)]
               ELSE MidFrom(pts, segs, n + 1, current_dist + seg_len,
                            target_dist)

\* label_angle: a direction pointing left is turned by pi
LabelAngle(angle) == IF angle = "pi" THEN "2pi" ELSE angle
LabelCos(a) == IF a = "2pi" THEN 1 ELSE Cos(a)
LabelSin(a) == IF a = "2pi" THEN 0 ELSE Sin(a)

\* the four corners of the estimated label, turned by the label's angle
Corners4(abbrev_name, mid, label_angle) ==
    LET half_w == (Len(abbrev_name) * LabelSize * 6) \div 20
        half_h == (LabelSize * 8) \div 20
        cos_a == LabelCos(label_angle)
        sin_a == LabelSin(label_angle)
    IN << Pt(-half_w * cos_a - half_h * sin_a + mid.x,
             -half_w * sin_a + half_h * cos_a + mid.y),
          Pt(half_w * cos_a - half_h * sin_a + mid.x,
             half_w * sin_a + half_h * cos_a + mid.y),
          Pt(half_w * cos_a + half_h * sin_a + mid.x,
             half_w * sin_a - half_h * cos_a + mid.y),
          Pt(-half_w * cos_a + half_h * sin_a + mid.x,
             -half_w * sin_a - half_h * cos_a + mid.y) >>

\* a test that is content with one corner inside
AnyInside(corners) ==
    LET margin == LabelSize \div 2
    IN \E k \in DOMAIN corners :
          ~(\/ corners[k].x < Tile.min_x + margin
            \/ corners[k].x > Tile.max_x - margin
            \/ corners[k].y < Tile.min_y + margin
            \/ corners[k].y > Tile.max_y - margin)

\* all_inside, with margin = props.road_label_size * 0.5
AllInside(corners) ==
    LET margin == LabelSize \div 2
    IN \A k \in DOMAIN corners :
          ~(\/ corners[k].x < Tile.min_x + margin
            \/ corners[k].x > Tile.max_x - margin
            \/ corners[k].y < Tile.min_y + margin
            \/ corners[k].y > Tile.max_y - margin)

\* a test that lets every road through
NeverSeen(name, seen_names) == FALSE

\* if name in seen_names: continue
Seen(name, seen_names) == name \in seen_names

\* one pass of the loop: what became of the road, and the candidate if it
\* became one
Candidate(road, seen_names, min_length) ==
    LET segs == InsideSegments(road.pts)
        inside_length == LengthOf(road.pts, segs, Len(segs))
        mid == MidFrom(road.pts, segs, 1, 0, inside_length \div 2)
        abbrev_name == EstimateFrom(road.name, 1)
        corners == Corners4(abbrev_name, mid, LabelAngle(mid.angle))
        none == <<>>
    IN IF Seen(road.name, seen_names)
          THEN [fate |-> "seen", inside_length |-> 0, est |-> "", corners |-> none,
                mid_x |-> 0, mid_y |-> 0, angle |-> "0"]
       ELSE IF segs = <<>>
          THEN [fate |-> "no segment", inside_length |-> 0, est |-> "",
                corners |-> none, mid_x |-> 0, mid_y |-> 0, angle |-> "0"]
       ELSE IF inside_length < min_length
          THEN [fate |-> "short", inside_length |-> inside_length, est |-> "",
                corners |-> none, mid_x |-> 0, mid_y |-> 0, angle |-> "0"]
       ELSE [fate |-> IF AllInside(corners) THEN "labeled" ELSE "outside",
             inside_length |-> inside_length, est |-> abbrev_name,
             corners |-> corners, mid_x |-> mid.x, mid_y |-> mid.y,
             angle |-> mid.angle]

InitCandidates ==
    /\ IdleOthers
    /\ \E n \in 1..MaxRoads :
       \E names \in [1..n -> CandidateNames], lines \in [1..n -> Polylines] :
       \E min_length \in MinLengthValues :
          calc = [pc |-> "roads",
                  named_roads |-> [i \in 1..n |->
                                      [name |-> names[i], pts |-> lines[i]]],
                  min_length |-> min_length,
                  i |-> 1,
                  seen_names |-> {},
                  fates |-> <<>>,
                  labeled_roads |-> <<>>,
                  texts |-> <<>>]

\* one pass of the loop over named_roads
CandidateRoad ==
    /\ calc.pc = "roads"
    /\ calc.i <= Len(calc.named_roads)
    /\ LET road == calc.named_roads[calc.i]
           c == Candidate(road, calc.seen_names, calc.min_length)
       IN calc' = [calc EXCEPT
             !.i = calc.i + 1,
             !.fates = Append(calc.fates, c),
             !.labeled_roads =
                 IF c.fate = "labeled"
                    THEN Append(calc.labeled_roads, calc.i) ELSE @,
             !.seen_names =
                 IF c.fate = "labeled" THEN @ \cup {road.name} ELSE @]
    /\ UNCHANGED others

\* the overlap filter, from candidate k on
RECURSIVE FilterFrom(_, _, _)
FilterFrom(cands, k, filtered_roads) ==
    IF k > Len(cands) THEN filtered_roads
    ELSE FilterFrom(cands, k + 1,
            IF TooClose(cands[k], filtered_roads, MinDistance(LabelSize))
               THEN filtered_roads ELSE Append(filtered_roads, cands[k]))

\* the candidates go through the overlap filter and the text of each label
\* kept is made by abbreviate_name
CandidateLabels ==
    /\ calc.pc = "roads"
    /\ calc.i > Len(calc.named_roads)
    /\ LET cands == [k \in DOMAIN calc.labeled_roads |->
                        [name |-> calc.labeled_roads[k],
                         x |-> calc.fates[calc.labeled_roads[k]].mid_x,
                         y |-> calc.fates[calc.labeled_roads[k]].mid_y]]
           filtered == FilterFrom(cands, 1, <<>>)
       IN calc' = [calc EXCEPT
             !.pc = "done",
             !.texts = [k \in DOMAIN filtered |->
                 [road |-> filtered[k].name,
                  name |-> calc.named_roads[filtered[k].name].name,
                  body |-> abbreviate_name(
                              calc.named_roads[filtered[k].name].name)]]]
    /\ UNCHANGED others

NextCandidates == CandidateRoad \/ CandidateLabels

SpecCandidates == InitCandidates /\ [][NextCandidates]_vars

\* the length of the part of a segment parallel to an axis that lies in the tile
ContainedSeg(p1, p2) ==
    IF p1.y = p2.y
       THEN IF Tile.min_y <= p1.y /\ p1.y <= Tile.max_y
               THEN Max(0, Min(Max(p1.x, p2.x), Tile.max_x)
                              - Max(Min(p1.x, p2.x), Tile.min_x))
               ELSE 0
       ELSE IF Tile.min_x <= p1.x /\ p1.x <= Tile.max_x
               THEN Max(0, Min(Max(p1.y, p2.y), Tile.max_y)
                              - Max(Min(p1.y, p2.y), Tile.min_y))
               ELSE 0

\* the length of the part of a polyline that lies in the tile
RECURSIVE ContainedLength(_, _)
ContainedLength(pts, n) ==
    IF n <= 1 THEN 0
    ELSE ContainedLength(pts, n - 1) + ContainedSeg(pts[n - 1], pts[n])

\* C24: a road whose name has no label yet goes on to the footprint check iff
\* the length of its polyline within the tile is at least
\* road_label_min_length, and the length the code takes for it is no more than
\* the length within the tile.
C24_InTileLength ==
    \A k \in DOMAIN calc.fates :
       LET pts == calc.named_roads[k].pts
           within == ContainedLength(pts, Len(pts))
       IN calc.fates[k].fate # "seen"
          => /\ calc.fates[k].fate \in {"labeled", "outside"}
                   <=> within >= calc.min_length
             /\ calc.fates[k].inside_length <= within

\* the rectangle of the estimated label about its anchor, lying along the road
FootprintInside(f) ==
    LET half_w == 3 * Len(f.est)
        half_h == 4
        dx == IF f.angle \in {"0", "pi"} THEN half_w ELSE half_h
        dy == IF f.angle \in {"0", "pi"} THEN half_h ELSE half_w
    IN /\ {f.corners[k] : k \in DOMAIN f.corners}
            = {Pt(f.mid_x - dx, f.mid_y - dy), Pt(f.mid_x + dx, f.mid_y - dy),
               Pt(f.mid_x - dx, f.mid_y + dy), Pt(f.mid_x + dx, f.mid_y + dy)}
       /\ 5 <= f.mid_x - dx /\ f.mid_x + dx <= 95
       /\ 5 <= f.mid_y - dy /\ f.mid_y + dy <= 95

\* C27: every candidate that reaches the overlap filter has the four corners of
\* its estimated, rotated footprint within the tile shrunk by half the label
\* size on each side; a road any corner of whose footprint is outside it is
\* not a candidate, and no label is made for it.
C27_FootprintInsideTile ==
    /\ \A k \in DOMAIN calc.labeled_roads :
          /\ calc.fates[calc.labeled_roads[k]].fate = "labeled"
          /\ FootprintInside(calc.fates[calc.labeled_roads[k]])
    /\ \A k \in DOMAIN calc.fates :
          calc.fates[k].fate = "outside"
          => /\ ~FootprintInside(calc.fates[k])
             /\ \A j \in DOMAIN calc.labeled_roads : calc.labeled_roads[j] # k
             /\ \A j \in DOMAIN calc.texts : calc.texts[j].road # k

\* a road along the tile's middle became a candidate and got its label; one
\* whose midpoint lies outside the tile and an upright one reaching over the
\* side were dropped
C27_Witness ==
    /\ calc.pc = "done"
    /\ Len(calc.fates) = 3
    /\ calc.fates[1].fate = "outside" /\ calc.fates[1].mid_x = -10
    /\ calc.fates[2].fate = "outside" /\ calc.fates[2].angle = "pi/2"
    /\ calc.fates[3].fate = "labeled" /\ calc.fates[3].angle = "pi"
    /\ \E j \in DOMAIN calc.texts : calc.texts[j].road = 3

\* C29: the text whose length was taken for the estimate of a label's footprint
\* is the text written into the label.
C29_EstimateIsFinalText ==
    \A j \in DOMAIN calc.texts :
       calc.fates[calc.texts[j].road].est = calc.texts[j].body

\* C30: no two labels made carry the same road name, and the label of a name
\* is that of the first road of that name that passed the length and the
\* footprint checks, roads of that name before it having been skipped.
C30_NameLabelledOnce ==
    /\ \A j, k \in DOMAIN calc.texts :
          calc.texts[j].name = calc.texts[k].name => j = k
    /\ \A j, k \in DOMAIN calc.labeled_roads :
          calc.named_roads[calc.labeled_roads[j]].name
             = calc.named_roads[calc.labeled_roads[k]].name => j = k
    /\ \A k \in DOMAIN calc.labeled_roads :
          LET r == calc.labeled_roads[k]
          IN \A e \in 1..(r - 1) :
                calc.named_roads[e].name = calc.named_roads[r].name
                => calc.fates[e].fate \in {"no segment", "short", "outside"}
    /\ \A k \in DOMAIN calc.fates :
          calc.fates[k].fate = "seen"
          <=> \E e \in 1..(k - 1) :
                 /\ calc.named_roads[e].name = calc.named_roads[k].name
                 /\ calc.fates[e].fate = "labeled"

\* three roads of one name: the first too short, the second labelled, the
\* third passed over because the name had its label
C30_Witness ==
    /\ calc.pc = "done"
    /\ Len(calc.fates) = 3
    /\ \A k \in 1..3 : calc.named_roads[k].name = "Main Street"
    /\ calc.fates[1].fate = "short"
    /\ calc.fates[2].fate = "labeled"
    /\ calc.fates[3].fate = "seen"
    /\ calc.named_roads[3].pts = calc.named_roads[2].pts
    /\ Len(calc.texts) = 1 /\ calc.texts[1].body = "Main St"

\* ---------------------------------------------------------------------------
\* The ground-floor sample of add_buildings_cityjson on meshes of up to 120
\* vertices.
\* ---------------------------------------------------------------------------

\* len(building_obj.data.vertices)
VertexCounts == {1, 9, 10, 11, 25, 99, 100, 101, 110, 119, 120}

\* the Z of vertex i is (a * i) % m: rising, scattered, and with many ties
ZPatterns == {<<a, m>> : a \in {1, 7, 37}, m \in {5, 101, 1000}}

InitSample ==
    /\ IdleOthers
    /\ \E n \in VertexCounts, pat \in ZPatterns :
          calc = [pc |-> "sort",
                  verts |-> Transformed([i \in 1..n |-> (pat[1] * i) % pat[2]], 0),
                  sorted_verts |-> <<>>,
                  ground_floor_verts |-> <<>>]

\* sorted_verts = sorted(enumerate(...), key=z)
SampleSort ==
    /\ calc.pc = "sort"
    /\ calc' = [calc EXCEPT !.pc = "take",
                   !.sorted_verts = SortedByZ(Len(calc.verts), calc.verts)]
    /\ UNCHANGED others

\* ground_floor_verts = sorted_verts[:sample_count]
SampleTake ==
    /\ calc.pc = "take"
    /\ calc' = [calc EXCEPT !.pc = "done",
                   !.ground_floor_verts = GroundFloorVerts(calc.verts)]
    /\ UNCHANGED others

NextSample == SampleSort \/ SampleTake

SpecSample == InitSample /\ [][NextSample]_vars

\* the vertices sampled
Sampled == Range(calc.ground_floor_verts)

\* the sample is made of the lowest vertices: none left out is lower than one
\* taken, nor as low with a smaller index
SampleIsLowest ==
    \A i \in Sampled : \A j \in (DOMAIN calc.verts) \ Sampled :
       \/ calc.verts[i].z < calc.verts[j].z
       \/ calc.verts[i].z = calc.verts[j].z /\ i < j

----------------------------------------------------------------------------
(* The boundary clip of a mesh of faces, and the loose-geometry pass          *)
(* (add_buildings, add_buildings_cityjson, add_roads, add_trails,             *)
(* add_road_labels).  A face is the sequence of its corners, a corner is a    *)
(* point in units of 1/ParamUnit; what a cut leaves of a face that only       *)
(* touches the plane is loose geometry: vertices attached to no face.         *)

\* the overlays that are clipped at the terrain boundary
OverlayKinds == {"buildings", "cityjson", "roads", "trails", "labels"}

\* a corner of the grid, in units of 1/ParamUnit
Corner(x, y) == [x |-> ParamUnit * x, y |-> ParamUnit * y, z |-> 0]

\* the corners of a face lie on one line
Collinear(a, b, c) ==
    (b.x - a.x) * (c.y - a.y) = (c.x - a.x) * (b.y - a.y)

\* the order in which the corners of a triangle are listed
Before(ax, ay, bx, by) == ax < bx \/ (ax = bx /\ ay < by)

\* the triangles of the grid, each listed once
Triangles ==
    {<<Corner(t[1], t[2]), Corner(t[3], t[4]), Corner(t[5], t[6])>> :
        t \in {u \in GridValues \X GridValues \X GridValues \X GridValues
                      \X GridValues \X GridValues :
                 /\ Before(u[1], u[2], u[3], u[4])
                 /\ Before(u[3], u[4], u[5], u[6])
                 /\ ~Collinear(Corner(u[1], u[2]), Corner(u[3], u[4]),
                               Corner(u[5], u[6]))}}

\* the signed distance of a corner from a plane of the clip
SideOf(pt, co, no) ==
    Side(pt, [x |-> ParamUnit * co.x, y |-> ParamUnit * co.y,
              z |-> ParamUnit * co.z], no)

ExactDiv(n, d) == IF d > 0 THEN n \div d ELSE (0 - n) \div (0 - d)

\* the new vertex where the edge from a to b crosses the plane
CutPoint(a, b, co, no) ==
    LET sa == SideOf(a, co, no)
        sb == SideOf(b, co, no)
    IN [x |-> a.x + ExactDiv((b.x - a.x) * sa, sa - sb),
        y |-> a.y + ExactDiv((b.y - a.y) * sa, sa - sb),
        z |-> 0]

\* what the cut leaves of the corners i.. of a face: the corners that are not
\* on the negative side of the plane, and a new vertex on every edge that
\* crosses it
RECURSIVE BisectFaceFrom(_, _, _, _)
BisectFaceFrom(face, i, co, no) ==
    IF i > Len(face) THEN <<>>
    ELSE LET cur == face[i]
             prev == face[IF i = 1 THEN Len(face) ELSE i - 1]
             cur_in == SideOf(cur, co, no) >= 0
             prev_in == SideOf(prev, co, no) >= 0
             here == IF cur_in
                       THEN IF prev_in THEN <<cur>>
                            ELSE IF SideOf(cur, co, no) = 0 THEN <<cur>>
                            ELSE <<CutPoint(prev, cur, co, no), cur>>
                     ELSE IF prev_in /\ SideOf(prev, co, no) > 0
                       THEN <<CutPoint(prev, cur, co, no)>>
                     ELSE <<>>
         IN here \o BisectFaceFrom(face, i + 1, co, no)

CornersOf(face) == {face[i] : i \in DOMAIN face}

\* bisect with clear_inner of a mesh of faces and loose vertices: a face of
\* which less than three corners are left is no face any more, the corners
\* left of it are loose
BisectMesh(mesh, co, no) ==
    LET cut == {BisectFaceFrom(f, 1, co, no) : f \in mesh.faces}
        faces == {f \in cut : Cardinality(CornersOf(f)) >= 3}
    IN [faces |-> faces,
        loose |-> ({v \in mesh.loose : SideOf(v, co, no) >= 0}
                   \cup UNION {CornersOf(f) : f \in cut \ faces})
                  \ UNION {CornersOf(f) : f \in faces}]

\* the four cuts of every overlay
BoundaryCut(mesh) ==
    BisectMesh(BisectMesh(BisectMesh(BisectMesh(mesh,
        WestPlaneCo, WestPlaneNo), EastPlaneCo, EastPlaneNo),
        SouthPlaneCo, SouthPlaneNo), NorthPlaneCo, NorthPlaneNo)

\* bpy.ops.mesh.delete_loose()
delete_loose(mesh) == [mesh EXCEPT !.loose = {}]

\* len(obj.data.vertices)
VertexCount(mesh) ==
    Cardinality(mesh.loose \cup UNION {CornersOf(f) : f \in mesh.faces})

InitLoose ==
    /\ IdleOthers
    /\ \E kind \in OverlayKinds, f \in Triangles :
         calc = [pc |-> "cut", kind |-> kind, input |-> f,
                 mesh |-> [faces |-> {f}, loose |-> {}],
                 result |-> "none yet"]

\* the four bisects, then for the shapefile buildings the loose-geometry pass
LooseBoundaryCuts ==
    /\ calc.pc = "cut"
    /\ calc' = [calc EXCEPT !.pc = IF calc.kind = "buildings" THEN "loose"
                                   ELSE "return",
                            !.mesh = BoundaryCut(calc.mesh)]
    /\ UNCHANGED others

LooseDeleteLoose ==
    /\ calc.pc = "loose"
    /\ calc' = [calc EXCEPT !.pc = "return", !.mesh = delete_loose(calc.mesh)]
    /\ UNCHANGED others

\* the buildings are dropped when no vertex is left, every other overlay is
\* returned as it is
LooseReturn ==
    /\ calc.pc = "return"
    /\ calc' = [calc EXCEPT
                  !.pc = "returned",
                  !.result = IF /\ calc.kind \in {"buildings", "cityjson"}
                                /\ VertexCount(calc.mesh) = 0
                               THEN "None" ELSE "object"]
    /\ UNCHANGED others

NextLoose == LooseBoundaryCuts \/ LooseDeleteLoose \/ LooseReturn

SpecLoose == InitLoose /\ [][NextLoose]_vars

\* C26: every boundary clip (shapefile buildings, CityJSON buildings, roads,
\* trails, road labels) is followed, before the clipped mesh is returned, by a
\* loose-geometry pass: the returned mesh has no vertex that is attached to
\* no face.
C26_NoLooseVertexReturned ==
    (calc.pc = "returned" /\ calc.result = "object") => calc.mesh.loose = {}

\* the part of the claim that the code keeps: the shapefile buildings
C26_BuildingsHaveNoLooseVertex ==
    (calc.pc \in {"return", "returned"} /\ calc.kind = "buildings")
    => calc.mesh.loose = {}

----------------------------------------------------------------------------
(* The STL files a batch run writes (DEMPRINT_OT_BatchProcess.execute,       *)
(* DEMPRINT_OT_Process.execute step 12, export_stl).  Paths are strings.     *)

\* props.batch_folder
BatchFolder == "dem"

\* the files under the batch folder, in the order of their path strings
FolderFiles ==
    <<"dem/a.asc", "dem/a.b.hgt", "dem/a.tif", "dem/b.tif", "dem/n/a.tif",
      "dem/n/notes.txt">>

\* props.output_path: not set, a folder that exists, a folder that does not
OutputPaths == {"", "out", "gone"}

\* os.path.isdir
IsDir(p) == p \in {"dem", "dem/n", "out"}

\* the last place of the character c in the string s, 0 when it has none
LastIndexOf(s, c) ==
    LET at == {i \in 1..Len(s) : SubSeq(s, i, i) = c}
    IN IF at = {} THEN 0 ELSE SetMax(at)

\* os.path.basename, os.path.dirname, os.path.join
Basename(p) == SubSeq(p, LastIndexOf(p, "/") + 1, Len(p))
Dirname(p) == SubSeq(p, 1, LastIndexOf(p, "/") - 1)
Join(d, f) == IF d = "" THEN f ELSE d \o "/" \o f

\* os.path.splitext: the path is split at the last dot of its last component,
\* unless that dot leads the component
Splitext(p) ==
    LET dot == LastIndexOf(p, ".")
    IN IF dot > LastIndexOf(p, "/") + 1
         THEN <<SubSeq(p, 1, dot - 1), SubSeq(p, dot, Len(p))>>
         ELSE <<p, "">>

\* the loops over os.walk and over os.listdir: the DEM files found
WalkDems(recursive) ==
    {f \in Range(FolderFiles) :
        /\ recursive \/ Dirname(f) = BatchFolder
        /\ Lower(Splitext(f)[2]) \in ValidExtensions}

\* dem_files.sort(): the files found, in the order of their path strings
SortedDems(found) ==
    LET rank(f) == CHOOSE i \in DOMAIN FolderFiles : FolderFiles[i] = f
        at(f) == 1 + Cardinality({g \in found : rank(g) < rank(f)})
    IN [p \in 1..Cardinality(found) |-> CHOOSE f \in found : at(f) = p]

\* the path export_stl writes to
OutputOf(dem_file, output_path, suffix) ==
    LET filename == Splitext(Basename(dem_file))[1]
    IN IF output_path # "" /\ IsDir(output_path)
         THEN Join(output_path, filename \o suffix \o ".stl")
         ELSE Join(Dirname(dem_file), filename \o suffix \o ".stl")

\* the suffixes of step 12, in the order of the exports
Suffixes == <<"_terrain", "_buildings", "_roads", "_trails", "_road_labels">>

\* what a tile has to export: nothing when the run ended before step 12, the
\* terrain alone, or the terrain and overlay objects
TileExports ==
    {<<>>, <<"_terrain">>, <<"_terrain", "_roads">>, Suffixes}

InitExport ==
    /\ IdleOthers
    /\ \E recursive \in BOOLEAN, output_path \in OutputPaths :
         calc = [pc |-> "discover", batch_recursive |-> recursive,
                 output_path |-> output_path, dem_files |-> <<>>, i |-> 0,
                 written |-> <<>>]

ExportDiscover ==
    /\ calc.pc = "discover"
    /\ LET dem_files == SortedDems(WalkDems(calc.batch_recursive))
       IN calc' = IF dem_files = <<>>
                    THEN [calc EXCEPT !.pc = "done"]
                    ELSE [calc EXCEPT !.pc = "loop", !.dem_files = dem_files,
                                      !.i = 1]
    /\ UNCHANGED others

\* one tile of the loop: props.dem_file is set and the tile is processed; its
\* exports are written one after the other
ExportTile ==
    /\ calc.pc = "loop"
    /\ calc.i <= Len(calc.dem_files)
    /\ \E exports \in TileExports :
         LET dem_file == calc.dem_files[calc.i]
             files == [k \in DOMAIN exports |->
                         [tile |-> calc.i, suffix |-> exports[k],
                          output |-> OutputOf(dem_file, calc.output_path,
                                              exports[k])]]
         IN calc' = [calc EXCEPT !.written = @ \o files, !.i = @ + 1]
    /\ UNCHANGED others

ExportFinish ==
    /\ calc.pc = "loop"
    /\ calc.i > Len(calc.dem_files)
    /\ calc' = [calc EXCEPT !.pc = "done"]
    /\ UNCHANGED others

NextExport == ExportDiscover \/ ExportTile \/ ExportFinish

SpecExport == InitExport /\ [][NextExport]_vars

\* C28: within one batch run no STL output path is written twice: the output
\* paths of all (tile, category) pairs are pairwise distinct, with and without
\* recursion and whether or not an output folder is set.
C28_OutputPathsDistinct ==
    \A j, k \in DOMAIN calc.written :
        j # k => calc.written[j].output # calc.written[k].output

\* the exports of one tile never overwrite each other
C28_OneTileDistinct ==
    \A j, k \in DOMAIN calc.written :
        (j # k /\ calc.written[j].tile = calc.written[k].tile)
        => calc.written[j].output # calc.written[k].output

====
